---- MODULE Spec2Model ----
\* TunneLab control plane: the in-memory Registry, the SQLite Repository
\* (tunnels table), the port allocator, the per-connection control session
\* (handleClient / handleTunnelRequest / cleanupClient), the per-tunnel
\* mux-establishment goroutine (waitForMuxConnection), and the public side:
\* HTTPProxy.ServeHTTP with copyResponse and TCPProxy.handleConnection.
\*
\* Abstractions.  Subdomains are 1..NumSubs (0 is the empty string), client
\* ids are 1..NumClients, control connections are 1..NumConns, tunnel ids
\* (uuid.New) are minted from a counter.  A *TunnelInfo pointer is the tunnel
\* id; the fields the handler fills in are kept in info, the one field that is
\* written later (MuxSession) in mux.  A yamux session is named after the
\* tunnel whose goroutine accepted it.  uuid.New() is the next unused id,
\* taken when the row is inserted (the id is not observable before that).  A Go slice is a backing array plus a
\* length; append and the in-place removal of Unregister act on the backing
\* array as the Go runtime does.  The Repository never fails except on the
\* partial unique index of the tunnels table.
EXTENDS Integers, Sequences, FiniteSets, TLC

\* ---------------------------------------------------------------- bounds
NumSubs == 4
NumClients == 2
NumConns == 2
MaxTunnels == 4
PortStart == 2
PortEnd == 4
MaxReqs == 1
MaxRid == 2
MaxClock == 1
ReplyReqs == 2
MaxHost == 4
NumChunks == 2
ProxySubs == 2
HttpSubs == 1
SoloReqs == 3
ApiTunnels == 3
ApiSessions == 2
ApiPorts == 2
TcpReqs == 3
InputReqs == 2
MaxQuota == 2
AllowSubs == 2

Subs == 1..NumSubs
Clients == 1..NumClients
Conns == 1..NumConns
Ids == 1..MaxTunnels
Ports == 1..PortEnd
Protos == {"", "http", "tcp"}
\* every kind of protocol value a tunnel_request payload can carry, and
\* every kind of local_port value (absent or zero, positive, negative)
AllProtos == {"", "http", "https", "tcp", "grpc", "ftp"}
LocalPorts == {0 - 1, 0, 1}
\* the first message on a connection: none (read error or deadline), an auth
\* message, or another message; the token it carries: 0 = missing or empty,
\* 1..NumClients = the token of that active client, NumClients + 1 = unknown
AuthTypes == {"none", "auth", "tunnel_request"}
\* request ids: 0 is the empty string
Rids == 0..MaxRid
Tokens == 0..(NumClients + 1)

VARIABLES
    reg,        \* Registry: tunnels (by subdomain), ports, clients (slices)
    info,       \* per tunnel id: ClientID, Subdomain, PublicPort, ControlConn
    mux,        \* TunnelInfo.MuxSession of each tunnel: 0 = nil, else session
    sess,       \* yamux session accepted for each tunnel: none/open/closed
    mpc,        \* position of waitForMuxConnection for each tunnel
    peer,       \* who dialed the connection each tunnel's listener accepted
    clientTab,  \* Repository clients table: max_tunnels, allowed_subdomains
    rows,       \* Repository tunnels table: status of the row of each id
    nextId,     \* next tunnel id to mint
    allocOn,    \* Handler.portAllocator # nil
    allocNext,  \* portAllocator.next
    pc,         \* position of each control session
    cid,        \* authenticated client id of each connection (0 = none)
    req,        \* locals of the running handleTunnelRequest
    todo,       \* tunnel requests each connection's client will still send
    snap,       \* locals of the running cleanupClient
    api,        \* result of the last direct Registry / Repository call
    out,        \* the reply written to each connection for its last message
    now,        \* the server's clock, time.Now().Unix()
    hp,         \* the running HTTPProxy.ServeHTTP
    tp          \* the running TCPProxy.handleConnection

vars == <<reg, info, mux, sess, mpc, peer, clientTab, rows, nextId, allocOn, allocNext,
          pc, cid, req, todo, snap, api, out, now, hp, tp>>

\* the variables outside the control plane
edge == <<now, hp, tp>>

\* strings are sequences of characters; a subdomain s is the name "a..a" of
\* length s, so that 0 is the empty string
Chars == {"a", ".", ":", "d"}
Hosts == UNION {[1..n -> Chars] : n \in 0..MaxHost}
SubName(s) == [j \in 1..s |-> "a"]

\* ServerConfig.Domain, and fmt.Sprintf("https://%s.%s", subdomain, domain);
\* the empty string is the empty sequence
Domain == <<"d">>
NoURL == <<>>
PublicURL(sub) == <<"https://">> \o SubName(sub) \o <<".">> \o Domain

NoInfo == [client |-> 0, sub |-> 0, port |-> 0, conn |-> 0,
           proto |-> "", lport |-> 0, url |-> NoURL]
NoReq == [sub |-> 0, port |-> 0, tid |-> 0, code |-> "",
          proto |-> "", lport |-> 0, url |-> NoURL, mtype |-> "", rid |-> 0]
\* a ControlMessage the server writes: Type, RequestID and the payload keys
\* code, tunnel_id, public_url, public_port and timestamp (absent: "", 0,
\* NoURL, 0, 0 - 1)
NoFrame == [type |-> "", rid |-> 0, code |-> "", tid |-> 0, url |-> NoURL,
            port |-> 0, ts |-> 0 - 1]
\* a clients row: max_tunnels (INTEGER DEFAULT 5) and allowed_subdomains (the
\* set of names in the comma-separated TEXT column; NULL or empty is {})
DefaultMaxTunnels == 5
DefaultClient == [max_tunnels |-> DefaultMaxTunnels, allowed |-> {}]
NoSnap == [alias |-> FALSE, arr |-> <<>>, n |-> 0, i |-> 0, tun |-> 0, own |-> {}]
NilSlice == [arr |-> <<>>, len |-> 0]

\* ------------------------------------------------------------- Go slices
Zeros(k) == [j \in 1..k |-> 0]

\* the visible elements of a slice
Elems(s) == SubSeq(s.arr, 1, s.len)

GrowCap(c) == IF c = 0 THEN 1 ELSE 2 * c

\* append(s, t): in place while len < cap, otherwise into a fresh array
SliceAppend(s, t) ==
    IF s.len < Len(s.arr)
    THEN [arr |-> [s.arr EXCEPT ![s.len + 1] = t], len |-> s.len + 1]
    ELSE [arr |-> Elems(s) \o <<t>> \o Zeros(GrowCap(Len(s.arr)) - s.len - 1),
          len |-> s.len + 1]

\* index of the first element of s whose Subdomain is sub, 0 if none
FirstWithSub(s, sub) ==
    LET hits == {j \in 1..s.len : info[s.arr[j]].sub = sub}
    IN IF hits = {} THEN 0 ELSE CHOOSE j \in hits : \A k \in hits : j <= k

\* append(s[:i], s[i+1:]...): shifts the tail left inside the backing array
SliceRemoveAt(s, i) ==
    [arr |-> [j \in 1..Len(s.arr) |->
                IF j >= i /\ j < s.len THEN s.arr[j + 1] ELSE s.arr[j]],
     len |-> s.len - 1]

\* -------------------------------------------------------------- Registry
NewRegistry ==
    [tunnels |-> [s \in Subs |-> 0],
     ports   |-> [p \in Ports |-> 0],
     clients |-> [c \in Clients |-> NilSlice]]

\* Register without the port check
RegisterErrNoPortCheck(r, t) ==
    IF r.tunnels[info[t].sub] # 0 THEN "subdomain" ELSE "ok"

RegisterErr(r, t) ==
    IF r.tunnels[info[t].sub] # 0 THEN "subdomain"
    ELSE IF info[t].port > 0 /\ r.ports[info[t].port] # 0 THEN "port"
    ELSE "ok"

Register(r, t) ==
    IF RegisterErr(r, t) # "ok" THEN r
    ELSE [tunnels |-> [r.tunnels EXCEPT ![info[t].sub] = t],
          ports   |-> IF info[t].port > 0
                      THEN [r.ports EXCEPT ![info[t].port] = t]
                      ELSE r.ports,
          clients |-> [r.clients EXCEPT
                         ![info[t].client] = SliceAppend(@, t)]]

RemoveFromClient(s, sub) ==
    IF FirstWithSub(s, sub) = 0 THEN s
    ELSE SliceRemoveAt(s, FirstWithSub(s, sub))

\* Unregister that leaves the port index alone
UnregisterKeepsPort(r, sub) ==
    LET t == r.tunnels[sub] IN
    IF t = 0 THEN r
    ELSE [tunnels |-> [r.tunnels EXCEPT ![sub] = 0],
          ports   |-> r.ports,
          clients |-> [r.clients EXCEPT
                         ![info[t].client] = RemoveFromClient(@, sub)]]

Unregister(r, sub) ==
    LET t == r.tunnels[sub] IN
    IF t = 0 THEN r
    ELSE [tunnels |-> [r.tunnels EXCEPT ![sub] = 0],
          ports   |-> IF info[t].port > 0
                      THEN [r.ports EXCEPT ![info[t].port] = 0]
                      ELSE r.ports,
          clients |-> [r.clients EXCEPT
                         ![info[t].client] = RemoveFromClient(@, sub)]]

\* an Unregister that leaves the removed binding's session open
UnregisterSessNoClose(r, sub) == sess

\* the sessions after Unregister(sub): the removed binding's session is closed
UnregisterSess(r, sub) ==
    LET t == r.tunnels[sub] IN
    IF t # 0 /\ mux[t] # 0 THEN [sess EXCEPT ![mux[t]] = "closed"] ELSE sess

GetBySubdomain(r, sub) == r.tunnels[sub]

GetByPort(r, p) == r.ports[p]

GetByClient(r, c) == r.clients[c]

Count(r) == Cardinality({s \in Subs : r.tunnels[s] # 0})

\* SetMuxSession(sub, s): the binding that gets the session, 0 = not found
SetMuxTarget(r, sub) == r.tunnels[sub]

\* OpenStream(sub): "notfound", "nomux", "failed" (session closed) or "ok"
OpenStream(r, sub) ==
    IF r.tunnels[sub] = 0 THEN "notfound"
    ELSE IF mux[r.tunnels[sub]] = 0 THEN "nomux"
    ELSE IF sess[mux[r.tunnels[sub]]] # "open" THEN "failed"
    ELSE "ok"

\* ------------------------------------------------------------ Repository
\* GetTunnelBySubdomain: some active row with this subdomain, 0 if none
ActiveRows(sub) == {t \in Ids : rows[t] = "active" /\ info[t].sub = sub}

\* a lookup that never finds a row
GetTunnelBySubdomainNever(sub) == FALSE

GetTunnelBySubdomain(sub) == ActiveRows(sub) # {}

\* CreateTunnel on a table without the partial unique index
CreateTunnelNoIndex(sub) == TRUE

\* CreateTunnel: the INSERT fails on idx_tunnels_subdomain
CreateTunnelOk(sub) == ActiveRows(sub) = {}

\* an UPDATE that matches no row
CloseTunnelNoRow(rw, t) == rw

CloseTunnel(rw, t) == IF rw[t] = "none" THEN rw ELSE [rw EXCEPT ![t] = "closed"]

\* ------------------------------------------------------------- allocator
RangeSize == PortEnd - PortStart + 1

Candidate(i) == PortStart + ((allocNext - PortStart + i + RangeSize) % RangeSize)

\* a scan that does not ask the Registry
FreeOffsetsAll(r) == 0..(RangeSize - 1)

FreeOffsets(r) == {i \in 0..(RangeSize - 1) : GetByPort(r, Candidate(i)) = 0}

\* allocate that hands out the cursor's port without scanning
AllocateNoScan(r) == Candidate(0)

\* allocate: the first free candidate from the cursor, 0 when exhausted
Allocate(r) ==
    IF FreeOffsets(r) = {} THEN 0
    ELSE Candidate(CHOOSE i \in FreeOffsets(r) : \A k \in FreeOffsets(r) : i <= k)

\* a cursor that runs past the end of the range
NextAfterNoWrap(p) == p + 1

NextAfter(p) == IF p + 1 > PortEnd THEN PortStart ELSE p + 1

\* assignPublicPort that always asks the allocator
AssignPublicPortNoExplicit(r, xport) ==
    IF ~allocOn THEN 0 ELSE Allocate(r)

\* assignPublicPort: the port, 0 on error
AssignPublicPort(r, xport) ==
    IF xport > 0 THEN (IF GetByPort(r, xport) # 0 THEN 0 ELSE xport)
    ELSE IF ~allocOn THEN 0
    ELSE Allocate(r)

\* ----------------------------------------------------------------- proxies
\* the locals of ServeHTTP and copyResponse: the Host header of the request,
\* the subdomain taken from it, the status written, the binding and the session of the
\* stream, the headers of the tunneled response as sent and as parsed, the
\* way of copying, and the chunks of the body read, written and flushed
NoHttp == [pc |-> "idle", host |-> <<>>, name |-> <<>>, status |-> 0,
           via |-> 0, on |-> 0,
           raw |-> {}, hdr |-> {}, mode |-> "", phase |-> "",
           rd |-> 0, wr |-> 0, fl |-> 0]

\* the locals of handleConnection: the port, the binding GetByPort returned,
\* the binding and the session of the stream, the two ends and the two
\* copy goroutines
NoTcp == [pc |-> "idle", port |-> 0, tun |-> 0, via |-> 0, on |-> 0,
          conn |-> "", stream |-> "", up |-> "", down |-> ""]

\* strings.Split(host, ":")[0]
StripPort(host) ==
    LET cols == {i \in 1..Len(host) : host[i] = ":"} IN
    IF cols = {} THEN host
    ELSE SubSeq(host, 1, (CHOOSE i \in cols : \A k \in cols : i <= k) - 1)

\* strings.HasSuffix and strings.TrimSuffix
HasSuffix(str, suf) ==
    /\ Len(str) >= Len(suf)
    /\ SubSeq(str, Len(str) - Len(suf) + 1, Len(str)) = suf

TrimSuffix(str, suf) ==
    IF HasSuffix(str, suf) THEN SubSeq(str, 1, Len(str) - Len(suf)) ELSE str

\* extractSubdomain that tests the suffix without the dot
ExtractSubdomainNoDot(host) ==
    IF ~HasSuffix(StripPort(host), Domain) THEN <<>>
    ELSE TrimSuffix(TrimSuffix(StripPort(host), Domain), <<".">>)

\* HTTPProxy.extractSubdomain
ExtractSubdomain(host) ==
    IF ~HasSuffix(StripPort(host), <<".">> \o Domain) THEN <<>>
    ELSE TrimSuffix(StripPort(host), <<".">> \o Domain)

\* the key of the Registry maps for a subdomain name, 0 for a name that no
\* tunnel of the model has
SubKey(name) ==
    IF \E k \in Subs : SubName(k) = name
    THEN CHOOSE k \in Subs : SubName(k) = name
    ELSE 0

\* Registry.GetBySubdomain and Registry.OpenStream for a subdomain name
LookupName(r, name) ==
    IF SubKey(name) = 0 THEN 0 ELSE GetBySubdomain(r, SubKey(name))

OpenStreamName(r, name) ==
    IF SubKey(name) = 0 THEN "notfound" ELSE OpenStream(r, SubKey(name))

\* ServeHTTP: extractSubdomain and handleTunnelLookup for a request with
\* this Host header
HttpAccept(host) ==
    /\ hp.pc = "idle"
    /\ IF ExtractSubdomain(host) = <<>>
       THEN hp' = [NoHttp EXCEPT !.pc = "done", !.host = host,
                                !.status = 400]
       ELSE IF LookupName(reg, ExtractSubdomain(host)) = 0
       THEN hp' = [NoHttp EXCEPT !.pc = "done", !.host = host,
                                !.status = 404,
                                !.name = ExtractSubdomain(host)]
       ELSE hp' = [NoHttp EXCEPT !.pc = "open", !.host = host,
                                !.name = ExtractSubdomain(host)]
    /\ UNCHANGED <<reg, info, mux, sess, mpc, peer, clientTab, rows, nextId, allocOn,
                   allocNext, pc, cid, req, todo, snap, api, out, now, tp>>

\* ServeHTTP: registry.OpenStream(subdomain)
HttpOpen ==
    /\ hp.pc = "open"
    /\ IF OpenStreamName(reg, hp.name) # "ok"
       THEN hp' = [hp EXCEPT !.pc = "done", !.status = 502]
       ELSE hp' = [hp EXCEPT !.pc = "forward",
                             !.via = LookupName(reg, hp.name),
                             !.on = mux[LookupName(reg, hp.name)]]
    /\ UNCHANGED <<reg, info, mux, sess, mpc, peer, clientTab, rows, nextId, allocOn,
                   allocNext, pc, cid, req, todo, snap, api, out, now, tp>>

\* ServeHTTP: handleRequestForwarding, r.Write(stream) succeeds or fails
HttpForward(ok) ==
    /\ hp.pc = "forward"
    /\ hp' = IF ok THEN [hp EXCEPT !.pc = "response"]
             ELSE [hp EXCEPT !.pc = "done", !.status = 502]
    /\ UNCHANGED <<reg, info, mux, sess, mpc, peer, clientTab, rows, nextId, allocOn,
                   allocNext, pc, cid, req, todo, snap, api, out, now, tp>>

\* the headers that ask for streaming, as the tunneled response sends them
StreamHeaders == {"content-type-event-stream", "transfer-encoding-chunked",
                  "x-accel-buffering-no"}

\* http.ReadResponse: the Transfer-Encoding header is taken out of
\* resp.Header (it is kept in resp.TransferEncoding)
ReadResponseHeader(raw) == raw \ {"transfer-encoding-chunked"}

\* the http.ResponseWriter of net/http is an http.Flusher
CanFlush == TRUE

\* HTTPProxy.isStreamingResponse on resp.Header
IsStreamingResponse(hdr) == hdr \cap StreamHeaders # {}

\* ServeHTTP: http.ReadResponse fails, or returns the response whose
\* headers were sent as raw; copyResponse picks the way of copying
HttpResponse(ok, raw) ==
    /\ hp.pc = "response"
    /\ hp' = IF ~ok THEN [hp EXCEPT !.pc = "done", !.status = 502]
             ELSE [hp EXCEPT !.pc = "copy", !.status = 200, !.raw = raw,
                             !.hdr = ReadResponseHeader(raw),
                             !.mode =
                                IF IsStreamingResponse(ReadResponseHeader(raw))
                                   /\ CanFlush
                                THEN "stream" ELSE "buffered",
                             !.phase = "read"]
    /\ UNCHANGED <<reg, info, mux, sess, mpc, peer, clientTab, rows, nextId, allocOn,
                   allocNext, pc, cid, req, todo, snap, api, out, now, tp>>

\* copyStreamingResponse / io.Copy: body.Read returns the next chunk, or
\* EOF or an error (more = FALSE); when the copy ends ServeHTTP returns and
\* the server flushes what is buffered
CopyRead(more) ==
    /\ hp.pc = "copy"
    /\ hp.phase = "read"
    /\ IF more /\ hp.rd < NumChunks
       THEN hp' = [hp EXCEPT !.rd = @ + 1, !.phase = "write"]
       ELSE hp' = [hp EXCEPT !.pc = "done", !.phase = "", !.fl = hp.wr]
    /\ UNCHANGED <<reg, info, mux, sess, mpc, peer, clientTab, rows, nextId, allocOn,
                   allocNext, pc, cid, req, todo, snap, api, out, now, tp>>

\* w.Write(buf[:n]) succeeds or fails
CopyWrite(ok) ==
    /\ hp.pc = "copy"
    /\ hp.phase = "write"
    /\ hp' = IF ~ok THEN [hp EXCEPT !.pc = "done", !.phase = ""]
             ELSE [hp EXCEPT !.wr = hp.rd,
                             !.phase = IF hp.mode = "stream"
                                       THEN "flush" ELSE "read"]
    /\ UNCHANGED <<reg, info, mux, sess, mpc, peer, clientTab, rows, nextId, allocOn,
                   allocNext, pc, cid, req, todo, snap, api, out, now, tp>>

\* copyStreamingResponse: flusher.Flush()
CopyFlush ==
    /\ hp.pc = "copy"
    /\ hp.phase = "flush"
    /\ hp' = [hp EXCEPT !.fl = hp.wr, !.phase = "read"]
    /\ UNCHANGED <<reg, info, mux, sess, mpc, peer, clientTab, rows, nextId, allocOn,
                   allocNext, pc, cid, req, todo, snap, api, out, now, tp>>

\* io.Copy: the buffer of the server's response writer runs full and is
\* sent
BufferFull ==
    /\ hp.pc = "copy"
    /\ hp.mode = "buffered"
    /\ hp.fl < hp.wr
    /\ hp' = [hp EXCEPT !.fl = hp.wr]
    /\ UNCHANGED <<reg, info, mux, sess, mpc, peer, clientTab, rows, nextId, allocOn,
                   allocNext, pc, cid, req, todo, snap, api, out, now, tp>>

\* the next public request arrives
HttpDone ==
    /\ hp.pc = "done"
    /\ hp' = NoHttp
    /\ UNCHANGED <<reg, info, mux, sess, mpc, peer, clientTab, rows, nextId, allocOn,
                   allocNext, pc, cid, req, todo, snap, api, out, now, tp>>

\* handleConnection: a connection is accepted on port p; GetByPort
TcpAccept(p) ==
    /\ tp.pc = "idle"
    /\ IF GetByPort(reg, p) = 0
       THEN tp' = [NoTcp EXCEPT !.pc = "done", !.port = p, !.conn = "closed"]
       ELSE tp' = [NoTcp EXCEPT !.pc = "open", !.port = p, !.conn = "open",
                                !.tun = GetByPort(reg, p)]
    /\ UNCHANGED <<reg, info, mux, sess, mpc, peer, clientTab, rows, nextId, allocOn,
                   allocNext, pc, cid, req, todo, snap, api, out, now, hp>>

\* handleConnection: registry.OpenStream(tunnel.Subdomain); on success the
\* two copy goroutines are started
TcpOpen ==
    /\ tp.pc = "open"
    /\ IF OpenStream(reg, info[tp.tun].sub) # "ok"
       THEN tp' = [tp EXCEPT !.pc = "done", !.conn = "closed"]
       ELSE tp' = [tp EXCEPT !.pc = "forward",
                             !.via = reg.tunnels[info[tp.tun].sub],
                             !.on = mux[reg.tunnels[info[tp.tun].sub]],
                             !.stream = "open", !.up = "run", !.down = "run"]
    /\ UNCHANGED <<reg, info, mux, sess, mpc, peer, clientTab, rows, nextId, allocOn,
                   allocNext, pc, cid, req, todo, snap, api, out, now, hp>>

\* the public client closes its connection, or the connection fails
ConnEnd ==
    /\ tp.pc = "forward"
    /\ tp.conn = "open"
    /\ tp' = [tp EXCEPT !.conn = "eof"]
    /\ UNCHANGED <<reg, info, mux, sess, mpc, peer, clientTab, rows, nextId, allocOn,
                   allocNext, pc, cid, req, todo, snap, api, out, now, hp>>

\* the tunnel client closes the stream, or the stream fails
StreamEnd ==
    /\ tp.pc = "forward"
    /\ tp.stream = "open"
    /\ tp' = [tp EXCEPT !.stream = "eof"]
    /\ UNCHANGED <<reg, info, mux, sess, mpc, peer, clientTab, rows, nextId, allocOn,
                   allocNext, pc, cid, req, todo, snap, api, out, now, hp>>

\* a goroutine that ends without closing the stream
UpEndKeepsStream ==
    /\ tp.pc = "forward"
    /\ tp.up = "run"
    /\ tp.conn # "open"
    /\ tp' = [tp EXCEPT !.up = "done"]
    /\ UNCHANGED <<reg, info, mux, sess, mpc, peer, clientTab, rows, nextId, allocOn,
                   allocNext, pc, cid, req, todo, snap, api, out, now, hp>>

\* handleConnection, first goroutine: io.Copy(stream, conn) returns when
\* reading conn fails or ends; stream.Close()
UpEnd ==
    /\ tp.pc = "forward"
    /\ tp.up = "run"
    /\ tp.conn # "open"
    /\ tp' = [tp EXCEPT !.up = "done", !.stream = "closed"]
    /\ UNCHANGED <<reg, info, mux, sess, mpc, peer, clientTab, rows, nextId, allocOn,
                   allocNext, pc, cid, req, todo, snap, api, out, now, hp>>

\* handleConnection, second goroutine: io.Copy(conn, stream) returns when
\* reading the stream fails or ends (the stream is closed on either side or
\* its session is closed); conn.Close()
DownEnd ==
    /\ tp.pc = "forward"
    /\ tp.down = "run"
    /\ tp.stream # "open" \/ sess[tp.on] # "open"
    /\ tp' = [tp EXCEPT !.down = "done", !.conn = "closed"]
    /\ UNCHANGED <<reg, info, mux, sess, mpc, peer, clientTab, rows, nextId, allocOn,
                   allocNext, pc, cid, req, todo, snap, api, out, now, hp>>

\* handleConnection: wg.Wait() returns; the deferred stream.Close() and
\* conn.Close()
TcpReturn ==
    /\ tp.pc = "forward"
    /\ tp.up = "done"
    /\ tp.down = "done"
    /\ tp' = [tp EXCEPT !.pc = "done", !.stream = "closed", !.conn = "closed"]
    /\ UNCHANGED <<reg, info, mux, sess, mpc, peer, clientTab, rows, nextId, allocOn,
                   allocNext, pc, cid, req, todo, snap, api, out, now, hp>>

\* the next public connection arrives
TcpDone ==
    /\ tp.pc = "done"
    /\ tp' = NoTcp
    /\ UNCHANGED <<reg, info, mux, sess, mpc, peer, clientTab, rows, nextId, allocOn,
                   allocNext, pc, cid, req, todo, snap, api, out, now, hp>>

\* ------------------------------------------------------------------ Init
Init ==
    /\ reg = NewRegistry
    /\ info = [t \in Ids |-> NoInfo]
    /\ mux = [t \in Ids |-> 0]
    /\ sess = [t \in Ids |-> "none"]
    /\ mpc = [t \in Ids |-> "none"]
    /\ peer = [t \in Ids |-> 0]
    /\ clientTab = [cl \in Clients |-> DefaultClient]
    /\ rows = [t \in Ids |-> "none"]
    /\ nextId = 1
    /\ allocOn \in BOOLEAN
    /\ allocNext = PortStart
    /\ pc = [c \in Conns |-> "new"]
    /\ cid = [c \in Conns |-> 0]
    /\ req = [c \in Conns |-> NoReq]
    /\ todo = [c \in Conns |-> MaxReqs]
    /\ snap = [c \in Conns |-> NoSnap]
    /\ api = "ok"
    /\ out = [c \in Conns |-> NoFrame]
    /\ now = 0
    /\ hp = NoHttp
    /\ tp = NoTcp

\* ------------------------------------------------------- derived notions
Bound(t) == info[t].sub # 0 /\ reg.tunnels[info[t].sub] = t

ErrorCodes == {"INVALID_REQUEST", "SUBDOMAIN_TAKEN", "PORT_ALLOCATION_FAILED",
               "INTERNAL_ERROR", "REGISTRATION_FAILED"}

\* HTTPProxy.ServeHTTP for a host with a well-formed subdomain
ServeHTTP(r, sub) ==
    IF GetBySubdomain(r, sub) = 0 THEN 404
    ELSE IF OpenStream(r, sub) # "ok" THEN 502
    ELSE 200

\* the slice a running cleanupClient ranges over shares its backing array
\* with r.clients[clientID] until Register moves that list to a new array
SnapArr(c) == IF snap[c].alias THEN reg.clients[cid[c]].arr ELSE snap[c].arr

SnapAfter(rNew) ==
    [c \in Conns |->
        IF snap[c].alias
           /\ Len(rNew.clients[cid[c]].arr) # Len(reg.clients[cid[c]].arr)
        THEN [snap[c] EXCEPT !.alias = FALSE, !.arr = reg.clients[cid[c]].arr]
        ELSE snap[c]]

\* -------------------------------------------------------- control session
\* Repository.GetClientByToken: the active client with this token, 0 = none
GetClientByToken(tok) == IF tok \in Clients THEN tok ELSE 0

\* authenticate that takes any first message as a good auth message
AuthResultAcceptsAny(typ, tok) ==
    IF typ = "none" THEN "read_error" ELSE "ok"

\* authenticate without the check for a missing or empty token
AuthResultNoEmptyCheck(typ, tok) ==
    IF typ = "none" THEN "read_error"
    ELSE IF typ # "auth" THEN "INVALID_MESSAGE"
    ELSE IF GetClientByToken(tok) = 0 THEN "AUTH_FAILED"
    ELSE "ok"

\* authenticate: the outcome for a first message of type typ with token tok
AuthResult(typ, tok) ==
    IF typ = "none" THEN "read_error"
    ELSE IF typ # "auth" THEN "INVALID_MESSAGE"
    ELSE IF tok = 0 THEN "INVALID_TOKEN"
    ELSE IF GetClientByToken(tok) = 0 THEN "AUTH_FAILED"
    ELSE "ok"

\* protocol.NewControlMessage(MsgTypeAuthResponse, msg.RequestID, ...)
AuthFrame(rid) == [NoFrame EXCEPT !.type = "auth_response", !.rid = rid]

\* an error frame without the request id of the message it answers
ErrorFrameNoRid(rid, code) == [NoFrame EXCEPT !.type = "error", !.code = code]

\* sendError: protocol.NewErrorMessage(requestID, code, message)
ErrorFrame(rid, code) ==
    [NoFrame EXCEPT !.type = "error", !.rid = rid, !.code = code]

\* HandleWebSocket: upgrade and authenticate, the token names client cl
\* (connections are numbered in the order in which they are made, clients
\* in the order in which they first authenticate)
AuthenticateMsg(c, typ, rid, tok, wok) ==
    /\ pc[c] = "new"
    /\ \A d \in 1..(c - 1) : pc[d] # "new"
    /\ IF AuthResult(typ, tok) = "ok"
       THEN /\ \A k \in 1..(GetClientByToken(tok) - 1) :
                   \E d \in Conns : cid[d] = k
            /\ IF wok
               THEN /\ pc' = [pc EXCEPT ![c] = "ready"]
                    /\ cid' = [cid EXCEPT ![c] = GetClientByToken(tok)]
                    /\ out' = [out EXCEPT ![c] = AuthFrame(rid)]
               ELSE /\ pc' = [pc EXCEPT ![c] = "closed"]
                    /\ UNCHANGED <<cid, out>>
            /\ UNCHANGED req
       ELSE IF AuthResult(typ, tok) = "read_error"
       THEN /\ pc' = [pc EXCEPT ![c] = "closed"]
            /\ UNCHANGED <<cid, req, out>>
       ELSE /\ pc' = [pc EXCEPT ![c] = "auth_error"]
            /\ req' = [req EXCEPT ![c].code = AuthResult(typ, tok),
                                  ![c].mtype = typ, ![c].rid = rid]
            /\ UNCHANGED <<cid, out>>
    /\ UNCHANGED <<reg, info, mux, sess, mpc, peer, clientTab, rows, nextId, allocOn,
                   allocNext, snap, todo, api>>
    /\ UNCHANGED edge

\* a first message that carries no request_id
Authenticate(c, typ, tok, wok) == AuthenticateMsg(c, typ, 0, tok, wok)

\* authenticate: sendError, then HandleWebSocket returns and closes the
\* connection (no cleanupClient: nothing was created)
AuthError(c) ==
    /\ pc[c] = "auth_error"
    /\ pc' = [pc EXCEPT ![c] = "closed"]
    /\ req' = [req EXCEPT ![c] = NoReq]
    /\ out' = [out EXCEPT ![c] = ErrorFrame(req[c].rid, req[c].code)]
    /\ UNCHANGED <<reg, info, mux, sess, mpc, peer, clientTab, rows, nextId, allocOn,
                   allocNext, cid, snap, todo, api>>
    /\ UNCHANGED edge

\* a connection whose client authenticates with the token of client cl
Connect(c, cl) == Authenticate(c, "auth", cl, TRUE)

\* the session is about to answer the request with sendError(code)
Fail(c, code) ==
    /\ pc' = [pc EXCEPT ![c] = "send_error"]
    /\ req' = [req EXCEPT ![c].code = code]

\* subdomains are named in the order of first use: a request names a
\* subdomain in use or the first unused one
UsedSubs == {info[t].sub : t \in Ids} \cup {req[c].sub : c \in Conns}

FreshSub == CHOOSE s \in 1..(NumSubs + 1) :
               s \notin UsedSubs /\ \A k \in 1..(s - 1) : k \in UsedSubs

\* handleTunnelRequest: case "http", "https" of the protocol switch
IsHttp(proto) == proto \in {"http", "https"}

\* handleClient: the provisioning message types, and ensureProtocolType
ProvisionTypes == {"tunnel_request", "tcp_request", "grpc_request"}

EnsureProtocolType(mtype, proto) ==
    IF mtype = "tcp_request" THEN "tcp"
    ELSE IF mtype = "grpc_request" THEN "grpc"
    ELSE proto

\* handleClient reads a provisioning message of type mtype with request id
\* rid; handleTunnelRequest up to the port assignment: validation and the
\* Repository lookup
ReadProvision(c, mtype, rid, sub, proto, lport, xport) ==
    /\ pc[c] = "ready"
    /\ todo[c] > 0
    /\ sub <= FreshSub
    /\ todo' = [todo EXCEPT ![c] = @ - 1]
    /\ out' = [out EXCEPT ![c] = NoFrame]
    /\ LET protocolType == EnsureProtocolType(mtype, proto) IN
       IF sub = 0 \/ protocolType = "" \/ lport = 0
       THEN /\ pc' = [pc EXCEPT ![c] = "send_error"]
            /\ req' = [req EXCEPT ![c] =
                          [NoReq EXCEPT !.code = "INVALID_REQUEST",
                                        !.mtype = mtype, !.rid = rid]]
       ELSE IF GetTunnelBySubdomain(sub)
       THEN /\ pc' = [pc EXCEPT ![c] = "send_error"]
            /\ req' = [req EXCEPT ![c] =
                          [NoReq EXCEPT !.sub = sub,
                                        !.code = "SUBDOMAIN_TAKEN",
                                        !.mtype = mtype, !.rid = rid]]
       ELSE /\ req' = [req EXCEPT ![c] =
                          [sub |-> sub, tid |-> 0, code |-> "",
                           port |-> IF IsHttp(protocolType) THEN 0 ELSE xport,
                           proto |-> protocolType, lport |-> lport,
                           url |-> IF IsHttp(protocolType)
                                   THEN PublicURL(sub) ELSE NoURL,
                           mtype |-> mtype, rid |-> rid]]
            /\ pc' = [pc EXCEPT ![c] =
                         IF IsHttp(protocolType) THEN "create" ELSE "port"]
    /\ UNCHANGED <<reg, info, mux, sess, mpc, peer, clientTab, rows, nextId, allocOn,
                   allocNext, cid, snap, api>>
    /\ UNCHANGED edge

\* a handler that takes a subdomain outside the client's allowed_subdomains
\* as a missing one
ReadRequestAllowedOnly(c, sub, proto, lport, xport) ==
    IF /\ pc[c] = "ready"
       /\ clientTab[cid[c]].allowed # {}
       /\ sub \notin clientTab[cid[c]].allowed
    THEN ReadProvision(c, "tunnel_request", 0, 0, proto, lport, xport)
    ELSE ReadProvision(c, "tunnel_request", 0, sub, proto, lport, xport)

\* a tunnel_request that carries no request_id
ReadRequest(c, sub, proto, lport, xport) ==
    ReadProvision(c, "tunnel_request", 0, sub, proto, lport, xport)

\* a heartbeat reply that carries no timestamp
HeartbeatFrameNoTime(rid) == [NoFrame EXCEPT !.type = "heartbeat", !.rid = rid]

\* handleHeartbeat: NewControlMessage(MsgTypeHeartbeat, msg.RequestID,
\* {"timestamp": time.Now().Unix()})
HeartbeatFrame(rid) ==
    [NoFrame EXCEPT !.type = "heartbeat", !.rid = rid, !.ts = now]

\* handleClient: a heartbeat (answered with a heartbeat) or a message of an
\* unknown type (logged); the session goes on reading
ReadOtherMsg(c, typ, rid) ==
    /\ pc[c] = "ready"
    /\ todo[c] > 0
    /\ typ \in {"heartbeat", "unknown"}
    /\ todo' = [todo EXCEPT ![c] = @ - 1]
    /\ out' = [out EXCEPT ![c] =
                 IF typ = "heartbeat" THEN HeartbeatFrame(rid) ELSE NoFrame]
    /\ UNCHANGED <<reg, info, mux, sess, mpc, peer, clientTab, rows, nextId, allocOn,
                   allocNext, pc, cid, req, snap, api>>
    /\ UNCHANGED edge

\* a heartbeat or an unknown message that carries no request_id
ReadOther(c, typ) == ReadOtherMsg(c, typ, 0)

\* handleTunnelRequest: assignPublicPort for a tcp / grpc request
AssignPort(c) ==
    /\ pc[c] = "port"
    /\ LET p == AssignPublicPort(reg, req[c].port) IN
       IF p = 0
       THEN /\ Fail(c, "PORT_ALLOCATION_FAILED")
            /\ UNCHANGED allocNext
       ELSE /\ req' = [req EXCEPT ![c].port = p]
            /\ allocNext' = IF req[c].port > 0 THEN allocNext ELSE NextAfter(p)
            /\ pc' = [pc EXCEPT ![c] = "create"]
    /\ UNCHANGED <<reg, info, mux, sess, mpc, peer, clientTab, rows, nextId, allocOn, cid,
                   todo, snap, api>>
    /\ UNCHANGED <<out, edge>>

\* handleTunnelRequest: repo.CreateTunnel
CreateTunnel(c) ==
    /\ pc[c] = "create"
    /\ IF CreateTunnelOk(req[c].sub)
       THEN /\ nextId <= MaxTunnels
            /\ info' = [info EXCEPT ![nextId] =
                          [client |-> cid[c], sub |-> req[c].sub,
                           port |-> req[c].port, conn |-> c,
                           proto |-> req[c].proto, lport |-> req[c].lport,
                           url |-> req[c].url]]
            /\ rows' = [rows EXCEPT ![nextId] = "active"]
            /\ nextId' = nextId + 1
            /\ req' = [req EXCEPT ![c].tid = nextId]
            /\ pc' = [pc EXCEPT ![c] = "register"]
       ELSE /\ Fail(c, "INTERNAL_ERROR")
            /\ UNCHANGED <<rows, info, nextId>>
    /\ UNCHANGED <<reg, mux, sess, mpc, peer, clientTab, allocOn, allocNext, cid, todo,
                   snap, api>>
    /\ UNCHANGED <<out, edge>>

\* handleTunnelRequest: registry.Register and, when it succeeds, the spawn
\* of waitForMuxConnection
RegisterTunnel(c) ==
    /\ pc[c] = "register"
    /\ reg' = Register(reg, req[c].tid)
    /\ snap' = SnapAfter(Register(reg, req[c].tid))
    /\ IF RegisterErr(reg, req[c].tid) = "ok"
       THEN /\ mpc' = [mpc EXCEPT ![req[c].tid] = "wait"]
            /\ pc' = [pc EXCEPT ![c] = "respond"]
       ELSE /\ pc' = [pc EXCEPT ![c] = "rollback"]
            /\ UNCHANGED mpc
    /\ UNCHANGED <<peer, clientTab>>
    /\ UNCHANGED <<info, mux, sess, rows, nextId, allocOn, allocNext, cid,
                   req, todo, api>>
    /\ UNCHANGED <<out, edge>>

\* handleTunnelRequest: roll the row back after a failed Register
Rollback(c) ==
    /\ pc[c] = "rollback"
    /\ rows' = CloseTunnel(rows, req[c].tid)
    /\ Fail(c, "REGISTRATION_FAILED")
    /\ UNCHANGED <<reg, info, mux, sess, mpc, peer, clientTab, nextId, allocOn, allocNext,
                   cid, snap, todo, api>>
    /\ UNCHANGED <<out, edge>>

\* an error reply that ends the session
SendErrorCloses(c) ==
    /\ pc[c] = "send_error"
    /\ pc' = [pc EXCEPT ![c] = "closed"]
    /\ req' = [req EXCEPT ![c] = NoReq]
    /\ out' = [out EXCEPT ![c] = ErrorFrame(req[c].rid, req[c].code)]
    /\ UNCHANGED edge
    /\ UNCHANGED <<reg, info, mux, sess, mpc, peer, clientTab, rows, nextId, allocOn,
                   allocNext, cid, snap, todo, api>>

\* sendError: the error frame is written (a failed write is only logged)
\* and the session goes back to reading
SendError(c) ==
    /\ pc[c] = "send_error"
    /\ pc' = [pc EXCEPT ![c] = "ready"]
    /\ req' = [req EXCEPT ![c] = NoReq]
    /\ out' = [out EXCEPT ![c] = ErrorFrame(req[c].rid, req[c].code)]
    /\ UNCHANGED edge
    /\ UNCHANGED <<reg, info, mux, sess, mpc, peer, clientTab, rows, nextId, allocOn,
                   allocNext, cid, snap, todo, api>>

\* handleTunnelRequest: the switch on protocolType that picks responseType
ResponseType(mtype, proto) ==
    IF proto = "tcp" THEN "tcp_response"
    ELSE IF proto = "grpc" THEN "grpc_response"
    ELSE "tunnel_response"

\* a response payload that always carries both public_url and public_port
ResponsePayloadBoth(q) == [url |-> PublicURL(q.sub), port |-> q.port]

\* handleTunnelRequest: respPayload has public_url when publicURL # "" and
\* public_port when publicPort > 0
ResponsePayload(q) ==
    [url  |-> IF q.url # NoURL THEN q.url ELSE NoURL,
     port |-> IF q.port > 0 THEN q.port ELSE 0]

\* handleTunnelRequest: NewControlMessage(responseType, msg.RequestID,
\* respPayload) for the request with locals q
ResponseFrame(q) ==
    [NoFrame EXCEPT !.type = ResponseType(q.mtype, q.proto), !.rid = q.rid,
                    !.tid = q.tid,
                    !.url = ResponsePayload(q).url,
                    !.port = ResponsePayload(q).port]

\* handleTunnelRequest: conn.WriteJSON(response) succeeds or fails; at is
\* the position of the session before the step
RespondFrom(c, at, ok) ==
    /\ pc[c] = at
    /\ IF ok
       THEN /\ pc' = [pc EXCEPT ![c] = "ready"]
            /\ req' = [req EXCEPT ![c] = NoReq]
            /\ out' = [out EXCEPT ![c] = ResponseFrame(req[c])]
       ELSE /\ pc' = [pc EXCEPT ![c] = "undo_unreg"]
            /\ UNCHANGED <<req, out>>
    /\ UNCHANGED edge
    /\ UNCHANGED <<reg, info, mux, sess, mpc, peer, clientTab, rows, nextId, allocOn,
                   allocNext, cid, snap, todo, api>>

\* the call of WriteJSON and its return taken as one step
Respond(c, ok) == RespondFrom(c, "respond", ok)

\* the session enters conn.WriteJSON(response)
RespondBegin(c) ==
    /\ pc[c] = "respond"
    /\ pc' = [pc EXCEPT ![c] = "resp_write"]
    /\ UNCHANGED <<reg, info, mux, sess, mpc, peer, clientTab, rows, nextId,
                   allocOn, allocNext, cid, req, snap, todo, api>>
    /\ UNCHANGED <<out, edge>>

\* conn.WriteJSON(response) returns
RespondEnd(c, ok) == RespondFrom(c, "resp_write", ok)

\* a failed send that goes on to CloseTunnel without the Unregister call
UndoSkipUnregister(c) ==
    /\ pc[c] = "undo_unreg"
    /\ pc' = [pc EXCEPT ![c] = "undo_close"]
    /\ UNCHANGED <<reg, sess, info, mux, mpc, peer, clientTab, rows, nextId, allocOn, allocNext,
                   cid, req, snap, todo, api>>
    /\ UNCHANGED <<out, edge>>

\* handleTunnelRequest: registry.Unregister(subdomain) after a failed send
UndoUnregister(c) ==
    /\ pc[c] = "undo_unreg"
    /\ reg' = Unregister(reg, info[req[c].tid].sub)
    /\ sess' = UnregisterSess(reg, info[req[c].tid].sub)
    /\ pc' = [pc EXCEPT ![c] = "undo_close"]
    /\ UNCHANGED <<info, mux, mpc, peer, clientTab, rows, nextId, allocOn, allocNext, cid,
                   req, snap, todo, api>>
    /\ UNCHANGED <<out, edge>>

\* handleTunnelRequest: repo.CloseTunnel(tunnelID) after a failed send
UndoClose(c) ==
    /\ pc[c] = "undo_close"
    /\ rows' = CloseTunnel(rows, req[c].tid)
    /\ pc' = [pc EXCEPT ![c] = "ready"]
    /\ req' = [req EXCEPT ![c] = NoReq]
    /\ UNCHANGED <<reg, info, mux, sess, mpc, peer, clientTab, nextId, allocOn, allocNext,
                   cid, snap, todo, api>>
    /\ UNCHANGED <<out, edge>>

\* handleClient: ReadJSON fails; cleanupClient starts with GetByClient
\* (own remembers which bindings the enumeration returned)
Disconnect(c) ==
    /\ pc[c] = "ready"
    /\ out' = [out EXCEPT ![c] = NoFrame]
    /\ UNCHANGED edge
    /\ snap' = [snap EXCEPT ![c] =
                  [alias |-> TRUE, arr |-> <<>>,
                   n |-> GetByClient(reg, cid[c]).len, i |-> 1, tun |-> 0,
                   own |-> {GetByClient(reg, cid[c]).arr[j] :
                              j \in 1..GetByClient(reg, cid[c]).len}]]
    /\ pc' = [pc EXCEPT ![c] = "cl_read"]
    /\ UNCHANGED <<reg, info, mux, sess, mpc, peer, clientTab, rows, nextId, allocOn,
                   allocNext, cid, req, todo, api>>

\* cleanupClient: the range loop reads tunnels[i], or ends
CleanupRead(c) ==
    /\ pc[c] = "cl_read"
    /\ IF snap[c].i > snap[c].n
       THEN /\ pc' = [pc EXCEPT ![c] = "closed"]
            /\ snap' = [snap EXCEPT ![c] = NoSnap]
       ELSE /\ pc' = [pc EXCEPT ![c] = "cl_unreg"]
            /\ snap' = [snap EXCEPT ![c].tun = SnapArr(c)[snap[c].i]]
    /\ UNCHANGED <<reg, info, mux, sess, mpc, peer, clientTab, rows, nextId, allocOn,
                   allocNext, cid, req, todo, api>>
    /\ UNCHANGED <<out, edge>>

\* cleanupClient going on to CloseTunnel without the Unregister call
CleanupSkipUnregister(c) ==
    /\ pc[c] = "cl_unreg"
    /\ pc' = [pc EXCEPT ![c] = "cl_close"]
    /\ UNCHANGED <<reg, sess, info, mux, mpc, peer, clientTab, rows, nextId, allocOn, allocNext,
                   cid, req, snap, todo, api>>
    /\ UNCHANGED <<out, edge>>

\* cleanupClient: registry.Unregister(tunnel.Subdomain)
CleanupUnregister(c) ==
    /\ pc[c] = "cl_unreg"
    /\ reg' = Unregister(reg, info[snap[c].tun].sub)
    /\ sess' = UnregisterSess(reg, info[snap[c].tun].sub)
    /\ pc' = [pc EXCEPT ![c] = "cl_close"]
    /\ UNCHANGED <<info, mux, mpc, peer, clientTab, rows, nextId, allocOn, allocNext, cid,
                   req, snap, todo, api>>
    /\ UNCHANGED <<out, edge>>

\* cleanupClient: repo.CloseTunnel(tunnel.ID)
CleanupClose(c) ==
    /\ pc[c] = "cl_close"
    /\ rows' = CloseTunnel(rows, snap[c].tun)
    /\ snap' = [snap EXCEPT ![c].i = @ + 1, ![c].tun = 0]
    /\ pc' = [pc EXCEPT ![c] = "cl_read"]
    /\ UNCHANGED <<reg, info, mux, sess, mpc, peer, clientTab, nextId, allocOn, allocNext,
                   cid, req, todo, api>>
    /\ UNCHANGED <<out, edge>>

\* --------------------------------------------------- waitForMuxConnection
\* the listener, the new_connection frame, Accept or yamux.Server fails
MuxFail(t) ==
    /\ mpc[t] = "wait"
    /\ mpc' = [mpc EXCEPT ![t] = "failed"]
    /\ UNCHANGED <<peer, clientTab>>
    /\ UNCHANGED <<reg, info, mux, sess, rows, nextId, allocOn, allocNext,
                   pc, cid, req, todo, snap, api>>
    /\ UNCHANGED <<out, edge>>

\* the client that owns the tunnel dials in: yamux.Server, then
\* registry.SetMuxSession
MuxEstablish(t) ==
    /\ mpc[t] = "wait"
    /\ peer' = [peer EXCEPT ![t] = info[t].client]
    /\ UNCHANGED clientTab
    /\ IF SetMuxTarget(reg, info[t].sub) # 0
       THEN /\ mux' = [mux EXCEPT ![SetMuxTarget(reg, info[t].sub)] = t]
            /\ sess' = [sess EXCEPT ![t] = "open"]
            /\ mpc' = [mpc EXCEPT ![t] = "done"]
       ELSE /\ sess' = [sess EXCEPT ![t] = "closed"]
            /\ mpc' = [mpc EXCEPT ![t] = "failed"]
            /\ UNCHANGED mux
    /\ UNCHANGED <<reg, info, rows, nextId, allocOn, allocNext, pc, cid,
                   req, snap, todo, api>>
    /\ UNCHANGED <<out, edge>>

\* waitForMuxConnection step by step.  Whoever connects to the listener's
\* port first is accepted: the client that owns the tunnel, or any other
\* party (NumClients + 1)
Stranger == NumClients + 1
Dialers(t) == {info[t].client, Stranger}

\* net.Listen has succeeded and the task enters
\* tunnel.ControlConn.WriteJSON(msg)
MuxWriteBegin(t) ==
    /\ mpc[t] = "wait"
    /\ mpc' = [mpc EXCEPT ![t] = "notify"]
    /\ UNCHANGED <<reg, info, mux, sess, peer, clientTab, rows, nextId,
                   allocOn, allocNext, pc, cid, req, todo, snap, api>>
    /\ UNCHANGED <<out, edge>>

\* WriteJSON returns: the new_connection frame is on the control channel
\* (which HandleWebSocket has not closed), or the write failed
MuxNotify(t, ok) ==
    /\ mpc[t] = "notify"
    /\ ok => pc[info[t].conn] # "closed"
    /\ mpc' = [mpc EXCEPT ![t] = IF ok THEN "listen" ELSE "failed"]
    /\ UNCHANGED <<reg, info, mux, sess, peer, clientTab, rows, nextId,
                   allocOn, allocNext, pc, cid, req, todo, snap, api>>
    /\ UNCHANGED <<out, edge>>

\* listener.Accept returns the connection that who has made, and
\* yamux.Server makes a session of it
MuxAccept(t, who) ==
    /\ mpc[t] = "listen"
    /\ who \in Dialers(t)
    /\ mpc' = [mpc EXCEPT ![t] = "accepted"]
    /\ peer' = [peer EXCEPT ![t] = who]
    /\ sess' = [sess EXCEPT ![t] = "open"]
    /\ UNCHANGED <<reg, info, mux, clientTab, rows, nextId, allocOn,
                   allocNext, pc, cid, req, todo, snap, api>>
    /\ UNCHANGED <<out, edge>>

\* the listener's 30 s deadline passes before anyone connects
MuxDeadline(t) ==
    /\ mpc[t] = "listen"
    /\ mpc' = [mpc EXCEPT ![t] = "failed"]
    /\ UNCHANGED <<reg, info, mux, sess, peer, clientTab, rows, nextId,
                   allocOn, allocNext, pc, cid, req, todo, snap, api>>
    /\ UNCHANGED <<out, edge>>

\* registry.SetMuxSession(tunnel.Subdomain, session), and session.Close()
\* when it returns an error
MuxAttach(t) ==
    /\ mpc[t] = "accepted"
    /\ IF SetMuxTarget(reg, info[t].sub) # 0
       THEN /\ mux' = [mux EXCEPT ![SetMuxTarget(reg, info[t].sub)] = t]
            /\ mpc' = [mpc EXCEPT ![t] = "done"]
            /\ UNCHANGED sess
       ELSE /\ sess' = [sess EXCEPT ![t] = "closed"]
            /\ mpc' = [mpc EXCEPT ![t] = "failed"]
            /\ UNCHANGED mux
    /\ UNCHANGED <<reg, info, peer, clientTab, rows, nextId, allocOn,
                   allocNext, pc, cid, req, todo, snap, api>>
    /\ UNCHANGED <<out, edge>>

\* the tasks inside WriteJSON on control connection c: the session (0) while
\* it writes a response, and the waitForMuxConnection tasks of the tunnels
\* made over c
Writers(c) ==
    {t \in Ids : mpc[t] = "notify" /\ info[t].conn = c}
        \cup (IF pc[c] = "resp_write" THEN {0} ELSE {})

\* the client or the network closes an established mux session
SessionClose(s) ==
    /\ sess[s] = "open"
    /\ sess' = [sess EXCEPT ![s] = "closed"]
    /\ UNCHANGED <<reg, info, mux, mpc, peer, clientTab, rows, nextId, allocOn, allocNext,
                   pc, cid, req, todo, snap, api>>
    /\ UNCHANGED <<out, edge>>

\* ------------------------------------------------------------------ Next
Next ==
    \/ \E c \in Conns, typ \in AuthTypes, tok \in Tokens, wok \in BOOLEAN :
          Authenticate(c, typ, tok, wok)
    \/ \E c \in Conns : AuthError(c)
    \/ \E c \in Conns, sub \in 0..NumSubs, proto \in Protos,
          lport \in 0..1, xport \in 0..PortEnd :
            ReadRequest(c, sub, proto, lport, xport)
    \/ \E c \in Conns, typ \in {"heartbeat", "unknown"} : ReadOther(c, typ)
    \/ \E c \in Conns : AssignPort(c)
    \/ \E c \in Conns : CreateTunnel(c)
    \/ \E c \in Conns : RegisterTunnel(c)
    \/ \E c \in Conns : Rollback(c)
    \/ \E c \in Conns : SendError(c)
    \/ \E c \in Conns, ok \in BOOLEAN : Respond(c, ok)
    \/ \E c \in Conns : UndoUnregister(c)
    \/ \E c \in Conns : UndoClose(c)
    \/ \E c \in Conns : Disconnect(c)
    \/ \E c \in Conns : CleanupRead(c)
    \/ \E c \in Conns : CleanupUnregister(c)
    \/ \E c \in Conns : CleanupClose(c)
    \/ \E t \in Ids : MuxFail(t)
    \/ \E t \in Ids : MuxEstablish(t)
    \/ \E s \in Ids : SessionClose(s)

Spec == Init /\ [][Next]_vars

\* the control sessions alone: no client dials a mux port and no
\* waitForMuxConnection task has reached its deadline yet
HandlerNext ==
    \/ \E c \in Conns, typ \in AuthTypes, tok \in Tokens, wok \in BOOLEAN :
          Authenticate(c, typ, tok, wok)
    \/ \E c \in Conns : AuthError(c)
    \/ \E c \in Conns, sub \in 0..NumSubs, proto \in Protos,
          lport \in 0..1, xport \in 0..PortEnd :
            ReadRequest(c, sub, proto, lport, xport)
    \/ \E c \in Conns, typ \in {"heartbeat", "unknown"} : ReadOther(c, typ)
    \/ \E c \in Conns : AssignPort(c)
    \/ \E c \in Conns : CreateTunnel(c)
    \/ \E c \in Conns : RegisterTunnel(c)
    \/ \E c \in Conns : Rollback(c)
    \/ \E c \in Conns : SendError(c)
    \/ \E c \in Conns, ok \in BOOLEAN : Respond(c, ok)
    \/ \E c \in Conns : UndoUnregister(c)
    \/ \E c \in Conns : UndoClose(c)
    \/ \E c \in Conns : Disconnect(c)
    \/ \E c \in Conns : CleanupRead(c)
    \/ \E c \in Conns : CleanupUnregister(c)
    \/ \E c \in Conns : CleanupClose(c)

HandlerSpec == Init /\ [][HandlerNext]_vars

\* tcp_request sessions with the port allocator configured: the first
\* connection sends up to TcpReqs requests, every other connection one
InitTcp ==
    /\ reg = NewRegistry
    /\ info = [t \in Ids |-> NoInfo]
    /\ mux = [t \in Ids |-> 0]
    /\ sess = [t \in Ids |-> "none"]
    /\ mpc = [t \in Ids |-> "none"]
    /\ peer = [t \in Ids |-> 0]
    /\ clientTab = [cl \in Clients |-> DefaultClient]
    /\ rows = [t \in Ids |-> "none"]
    /\ nextId = 1
    /\ allocOn = TRUE
    /\ allocNext = PortStart
    /\ pc = [c \in Conns |-> "new"]
    /\ cid = [c \in Conns |-> 0]
    /\ req = [c \in Conns |-> NoReq]
    /\ todo = [c \in Conns |-> IF c = 1 THEN TcpReqs ELSE 1]
    /\ snap = [c \in Conns |-> NoSnap]
    /\ api = "ok"
    /\ out = [c \in Conns |-> NoFrame]
    /\ now = 0
    /\ hp = NoHttp
    /\ tp = NoTcp

\* each connection is a client of its own; a request names no port or the
\* second port of the range; every response reaches the client
TcpNext ==
    \/ \E c \in Conns : Connect(c, c)
    \/ \E c \in Conns, sub \in Subs, lport \in 0..1,
          xport \in {0, PortStart + 1} :
            ReadRequest(c, sub, "tcp", lport, xport)
    \/ \E c \in Conns : AssignPort(c)
    \/ \E c \in Conns : CreateTunnel(c)
    \/ \E c \in Conns : RegisterTunnel(c)
    \/ \E c \in Conns : Rollback(c)
    \/ \E c \in Conns : SendError(c)
    \/ \E c \in Conns : Respond(c, TRUE)
    \/ \E c \in Conns : Disconnect(c)
    \/ \E c \in Conns : CleanupRead(c)
    \/ \E c \in Conns : CleanupUnregister(c)
    \/ \E c \in Conns : CleanupClose(c)

TcpSpec == InitTcp /\ [][TcpNext]_vars

\* one connection that sends up to InputReqs tunnel requests with every
\* kind of payload, and other messages
InitInput ==
    /\ reg = NewRegistry
    /\ info = [t \in Ids |-> NoInfo]
    /\ mux = [t \in Ids |-> 0]
    /\ sess = [t \in Ids |-> "none"]
    /\ mpc = [t \in Ids |-> "none"]
    /\ peer = [t \in Ids |-> 0]
    /\ clientTab = [cl \in Clients |-> DefaultClient]
    /\ rows = [t \in Ids |-> "none"]
    /\ nextId = 1
    /\ allocOn \in BOOLEAN
    /\ allocNext = PortStart
    /\ pc = [c \in Conns |-> "new"]
    /\ cid = [c \in Conns |-> 0]
    /\ req = [c \in Conns |-> NoReq]
    /\ todo = [c \in Conns |-> IF c = 1 THEN InputReqs ELSE 0]
    /\ snap = [c \in Conns |-> NoSnap]
    /\ api = "ok"
    /\ out = [c \in Conns |-> NoFrame]
    /\ now = 0
    /\ hp = NoHttp
    /\ tp = NoTcp

InputNext ==
    \/ Connect(1, 1)
    \/ \E c \in Conns, sub \in 0..NumSubs, proto \in AllProtos,
          lport \in LocalPorts, xport \in {0, PortStart + 1} :
            ReadRequest(c, sub, proto, lport, xport)
    \/ \E c \in Conns, typ \in {"heartbeat", "unknown"} : ReadOther(c, typ)
    \/ \E c \in Conns : AssignPort(c)
    \/ \E c \in Conns : CreateTunnel(c)
    \/ \E c \in Conns : RegisterTunnel(c)
    \/ \E c \in Conns : SendError(c)
    \/ \E c \in Conns : Respond(c, TRUE)
    \/ \E c \in Conns : Disconnect(c)
    \/ \E c \in Conns : CleanupRead(c)
    \/ \E c \in Conns : CleanupUnregister(c)
    \/ \E c \in Conns : CleanupClose(c)

InputSpec == InitInput /\ [][InputNext]_vars

\* time passes on the server's clock
Tick ==
    /\ now < MaxClock
    /\ now' = now + 1
    /\ UNCHANGED <<reg, info, mux, sess, mpc, peer, clientTab, rows, nextId, allocOn,
                   allocNext, pc, cid, req, todo, snap, api, out, hp, tp>>

\* one connection that sends up to ReplyReqs messages of every type, with
\* every kind of payload and request id, while the clock runs
InitReply ==
    /\ reg = NewRegistry
    /\ info = [t \in Ids |-> NoInfo]
    /\ mux = [t \in Ids |-> 0]
    /\ sess = [t \in Ids |-> "none"]
    /\ mpc = [t \in Ids |-> "none"]
    /\ peer = [t \in Ids |-> 0]
    /\ clientTab = [cl \in Clients |-> DefaultClient]
    /\ rows = [t \in Ids |-> "none"]
    /\ nextId = 1
    /\ allocOn \in BOOLEAN
    /\ allocNext = PortStart
    /\ pc = [c \in Conns |-> "new"]
    /\ cid = [c \in Conns |-> 0]
    /\ req = [c \in Conns |-> NoReq]
    /\ todo = [c \in Conns |-> IF c = 1 THEN ReplyReqs ELSE 0]
    /\ snap = [c \in Conns |-> NoSnap]
    /\ api = "ok"
    /\ out = [c \in Conns |-> NoFrame]
    /\ now = 0
    /\ hp = NoHttp
    /\ tp = NoTcp

ReplyNext ==
    \/ \E typ \in AuthTypes, rid \in Rids, tok \in Tokens, wok \in BOOLEAN :
          AuthenticateMsg(1, typ, rid, tok, wok)
    \/ \E c \in Conns : AuthError(c)
    \/ \E c \in Conns, mtype \in ProvisionTypes, rid \in Rids,
          sub \in 0..NumSubs, proto \in AllProtos, lport \in 0..1,
          xport \in {0, PortStart + 1} :
            ReadProvision(c, mtype, rid, sub, proto, lport, xport)
    \/ \E c \in Conns, typ \in {"heartbeat", "unknown"}, rid \in Rids :
          ReadOtherMsg(c, typ, rid)
    \/ \E c \in Conns : AssignPort(c)
    \/ \E c \in Conns : CreateTunnel(c)
    \/ \E c \in Conns : RegisterTunnel(c)
    \/ \E c \in Conns : SendError(c)
    \/ \E c \in Conns, ok \in BOOLEAN : Respond(c, ok)
    \/ \E c \in Conns : UndoUnregister(c)
    \/ \E c \in Conns : UndoClose(c)
    \/ \E c \in Conns : Disconnect(c)
    \/ \E c \in Conns : CleanupRead(c)
    \/ \E c \in Conns : CleanupUnregister(c)
    \/ \E c \in Conns : CleanupClose(c)
    \/ Tick

ReplySpec == InitReply /\ [][ReplyNext]_vars

\* the steps the server takes on its own, and the clock: the scheduler runs
\* every task that can take a step; the reads wait for the client
ServerStep ==
    \/ \E c \in Conns : AuthError(c)
    \/ \E c \in Conns : AssignPort(c)
    \/ \E c \in Conns : CreateTunnel(c)
    \/ \E c \in Conns : RegisterTunnel(c)
    \/ \E c \in Conns : SendError(c)
    \/ \E c \in Conns, ok \in BOOLEAN : Respond(c, ok)
    \/ \E c \in Conns : UndoUnregister(c)
    \/ \E c \in Conns : UndoClose(c)
    \/ \E c \in Conns : CleanupRead(c)
    \/ \E c \in Conns : CleanupUnregister(c)
    \/ \E c \in Conns : CleanupClose(c)
    \/ Tick

\* the same sessions under a fair scheduler; a read error (Disconnect) may
\* happen at any time and need not happen
IdleSpec == InitReply /\ [][ReplyNext]_vars /\ WF_vars(ServerStep)

\* http tunnels with their mux establishment: every connection sends one
\* well-formed request, connections may share a client, and the port
\* allocator is off
InitMux ==
    /\ reg = NewRegistry
    /\ info = [t \in Ids |-> NoInfo]
    /\ mux = [t \in Ids |-> 0]
    /\ sess = [t \in Ids |-> "none"]
    /\ mpc = [t \in Ids |-> "none"]
    /\ peer = [t \in Ids |-> 0]
    /\ clientTab = [cl \in Clients |-> DefaultClient]
    /\ rows = [t \in Ids |-> "none"]
    /\ nextId = 1
    /\ allocOn = FALSE
    /\ allocNext = PortStart
    /\ pc = [c \in Conns |-> "new"]
    /\ cid = [c \in Conns |-> 0]
    /\ req = [c \in Conns |-> NoReq]
    /\ todo = [c \in Conns |-> MaxReqs]
    /\ snap = [c \in Conns |-> NoSnap]
    /\ api = "ok"
    /\ out = [c \in Conns |-> NoFrame]
    /\ now = 0
    /\ hp = NoHttp
    /\ tp = NoTcp

MuxNext ==
    \/ \E c \in Conns, cl \in Clients : Connect(c, cl)
    \/ \E c \in Conns, sub \in Subs : ReadRequest(c, sub, "http", 1, 0)
    \/ \E c \in Conns : CreateTunnel(c)
    \/ \E c \in Conns : RegisterTunnel(c)
    \/ \E c \in Conns : SendError(c)
    \/ \E c \in Conns : RespondBegin(c)
    \/ \E c \in Conns, ok \in BOOLEAN : RespondEnd(c, ok)
    \/ \E c \in Conns : UndoUnregister(c)
    \/ \E c \in Conns : UndoClose(c)
    \/ \E c \in Conns : Disconnect(c)
    \/ \E c \in Conns : CleanupRead(c)
    \/ \E c \in Conns : CleanupUnregister(c)
    \/ \E c \in Conns : CleanupClose(c)
    \/ \E t \in Ids : MuxWriteBegin(t)
    \/ \E t \in Ids, ok \in BOOLEAN : MuxNotify(t, ok)
    \/ \E t \in Ids, who \in 1..Stranger : MuxAccept(t, who)
    \/ \E t \in Ids : MuxDeadline(t)
    \/ \E t \in Ids : MuxAttach(t)

MuxSpec == InitMux /\ [][MuxNext]_vars

\* one connection whose client sends SoloReqs well-formed http requests
InitSolo ==
    /\ reg = NewRegistry
    /\ info = [t \in Ids |-> NoInfo]
    /\ mux = [t \in Ids |-> 0]
    /\ sess = [t \in Ids |-> "none"]
    /\ mpc = [t \in Ids |-> "none"]
    /\ peer = [t \in Ids |-> 0]
    /\ clientTab = [cl \in Clients |-> DefaultClient]
    /\ rows = [t \in Ids |-> "none"]
    /\ nextId = 1
    /\ allocOn = FALSE
    /\ allocNext = PortStart
    /\ pc = [c \in Conns |-> "new"]
    /\ cid = [c \in Conns |-> 0]
    /\ req = [c \in Conns |-> NoReq]
    /\ todo = [c \in Conns |-> IF c = 1 THEN SoloReqs ELSE 0]
    /\ snap = [c \in Conns |-> NoSnap]
    /\ api = "ok"
    /\ out = [c \in Conns |-> NoFrame]
    /\ now = 0
    /\ hp = NoHttp
    /\ tp = NoTcp

SoloNext ==
    \/ \E cl \in Clients : Connect(1, cl)
    \/ \E c \in Conns, sub \in Subs : ReadRequest(c, sub, "http", 1, 0)
    \/ \E c \in Conns : CreateTunnel(c)
    \/ \E c \in Conns : RegisterTunnel(c)
    \/ \E c \in Conns : SendError(c)
    \/ \E c \in Conns, ok \in BOOLEAN : Respond(c, ok)
    \/ \E c \in Conns : UndoUnregister(c)
    \/ \E c \in Conns : UndoClose(c)
    \/ \E c \in Conns : Disconnect(c)
    \/ \E c \in Conns : CleanupRead(c)
    \/ \E c \in Conns : CleanupUnregister(c)
    \/ \E c \in Conns : CleanupClose(c)
    \/ \E t \in Ids : MuxFail(t)
    \/ \E t \in Ids : MuxEstablish(t)
    \/ \E s \in Ids : SessionClose(s)

SoloSpec == InitSolo /\ [][SoloNext]_vars

\* the values of the clients row of the first client: max_tunnels from 1 to
\* MaxQuota, allowed_subdomains any set of the first AllowSubs names
AllowedSets == SUBSET (1..AllowSubs)

\* one connection of the first client, which sends SoloReqs well-formed http
\* requests; the row of the client is any row of the clients table
InitClient ==
    /\ reg = NewRegistry
    /\ info = [t \in Ids |-> NoInfo]
    /\ mux = [t \in Ids |-> 0]
    /\ sess = [t \in Ids |-> "none"]
    /\ mpc = [t \in Ids |-> "none"]
    /\ peer = [t \in Ids |-> 0]
    /\ \E m \in 1..MaxQuota, a \in AllowedSets :
          clientTab = [cl \in Clients |->
                         IF cl = 1 THEN [max_tunnels |-> m, allowed |-> a]
                         ELSE DefaultClient]
    /\ rows = [t \in Ids |-> "none"]
    /\ nextId = 1
    /\ allocOn = FALSE
    /\ allocNext = PortStart
    /\ pc = [c \in Conns |-> "new"]
    /\ cid = [c \in Conns |-> 0]
    /\ req = [c \in Conns |-> NoReq]
    /\ todo = [c \in Conns |-> IF c = 1 THEN SoloReqs ELSE 0]
    /\ snap = [c \in Conns |-> NoSnap]
    /\ api = "ok"
    /\ out = [c \in Conns |-> NoFrame]
    /\ now = 0
    /\ hp = NoHttp
    /\ tp = NoTcp

ClientNext ==
    \/ Connect(1, 1)
    \/ \E c \in Conns, sub \in Subs : ReadRequest(c, sub, "http", 1, 0)
    \/ \E c \in Conns : CreateTunnel(c)
    \/ \E c \in Conns : RegisterTunnel(c)
    \/ \E c \in Conns : SendError(c)
    \/ \E c \in Conns, ok \in BOOLEAN : Respond(c, ok)
    \/ \E c \in Conns : UndoUnregister(c)
    \/ \E c \in Conns : UndoClose(c)
    \/ \E c \in Conns : Disconnect(c)
    \/ \E c \in Conns : CleanupRead(c)
    \/ \E c \in Conns : CleanupUnregister(c)
    \/ \E c \in Conns : CleanupClose(c)

ClientSpec == InitClient /\ [][ClientNext]_vars

\* cleanupClient(clientID) called once more after the cleanup of a closed
\* session has returned; api tells that the second call has been made
CleanupAgain(c) ==
    /\ pc[c] = "closed"
    /\ cid[c] # 0
    /\ api = "ok"
    /\ api' = "again"
    /\ snap' = [snap EXCEPT ![c] =
                  [alias |-> TRUE, arr |-> <<>>,
                   n |-> GetByClient(reg, cid[c]).len, i |-> 1, tun |-> 0,
                   own |-> {GetByClient(reg, cid[c]).arr[j] :
                              j \in 1..GetByClient(reg, cid[c]).len}]]
    /\ pc' = [pc EXCEPT ![c] = "cl_read"]
    /\ UNCHANGED <<reg, info, mux, sess, mpc, peer, clientTab, rows, nextId, allocOn,
                   allocNext, cid, req, todo, out, edge>>

\* the sessions of SoloSpec, and cleanupClient applied a second time
AgainNext ==
    \/ SoloNext
    \/ \E c \in Conns : CleanupAgain(c)

AgainSpec == InitSolo /\ [][AgainNext]_vars

\* ------------------------------------------- the Registry and Repository API
\* The exported operations called directly, in any order, by any caller.
\* api is the result of the last call.
InitApi ==
    /\ reg = NewRegistry
    /\ info = [t \in Ids |-> NoInfo]
    /\ mux = [t \in Ids |-> 0]
    /\ sess = [t \in Ids |-> "none"]
    /\ mpc = [t \in Ids |-> "none"]
    /\ peer = [t \in Ids |-> 0]
    /\ clientTab = [cl \in Clients |-> DefaultClient]
    /\ rows = [t \in Ids |-> "none"]
    /\ nextId = 1
    /\ allocOn = FALSE
    /\ allocNext = PortStart
    /\ pc = [c \in Conns |-> "new"]
    /\ cid = [c \in Conns |-> 0]
    /\ req = [c \in Conns |-> NoReq]
    /\ todo = [c \in Conns |-> 0]
    /\ snap = [c \in Conns |-> NoSnap]
    /\ api = "ok"
    /\ out = [c \in Conns |-> NoFrame]
    /\ now = 0
    /\ hp = NoHttp
    /\ tp = NoTcp

FreshClient == CHOOSE k \in 1..(NumClients + 1) :
                  /\ \A t \in Ids : info[t].client # k
                  /\ \A j \in 1..(k - 1) : \E t \in Ids : info[t].client = j

ApiUnchanged ==
    UNCHANGED <<mpc, peer, clientTab, allocOn, allocNext, pc, cid, req, todo, snap, out, edge>>

\* a caller builds the Tunnel / TunnelInfo value with a fresh id
ApiNewTunnel(cl, sub, port) ==
    /\ nextId <= ApiTunnels
    /\ sub <= FreshSub
    /\ cl <= FreshClient
    /\ info' = [info EXCEPT ![nextId] =
                  [client |-> cl, sub |-> sub, port |-> port, conn |-> 0,
                   proto |-> IF port > 0 THEN "tcp" ELSE "http", lport |-> 1,
                   url |-> IF port > 0 THEN NoURL ELSE PublicURL(sub)]]
    /\ nextId' = nextId + 1
    /\ api' = "ok"
    /\ UNCHANGED <<reg, mux, sess, rows>>
    /\ ApiUnchanged

\* Repository.CreateTunnel (tunnels.id is the primary key)
ApiCreateTunnel(t) ==
    /\ t < nextId
    /\ rows[t] = "none"
    /\ IF CreateTunnelOk(info[t].sub)
       THEN /\ rows' = [rows EXCEPT ![t] = "active"]
            /\ api' = "ok"
       ELSE /\ api' = "constraint"
            /\ UNCHANGED rows
    /\ UNCHANGED <<reg, info, mux, sess, nextId>>
    /\ ApiUnchanged

\* Repository.CloseTunnel
ApiCloseTunnel(t) ==
    /\ t < nextId
    /\ rows' = CloseTunnel(rows, t)
    /\ api' = "ok"
    /\ UNCHANGED <<reg, info, mux, sess, nextId>>
    /\ ApiUnchanged

\* Registry.Register
ApiRegister(t) ==
    /\ t < nextId
    /\ reg' = Register(reg, t)
    /\ api' = RegisterErr(reg, t)
    /\ UNCHANGED <<info, mux, sess, rows, nextId>>
    /\ ApiUnchanged

\* Registry.Unregister
ApiUnregister(sub) ==
    /\ reg' = Unregister(reg, sub)
    /\ sess' = UnregisterSess(reg, sub)
    /\ api' = "ok"
    /\ UNCHANGED <<info, mux, rows, nextId>>
    /\ ApiUnchanged

\* Registry.SetMuxSession with a new yamux session s
ApiSetMuxSession(sub, s) ==
    /\ s <= ApiSessions
    /\ sess[s] = "none"
    /\ \A k \in 1..(s - 1) : sess[k] # "none"
    /\ IF SetMuxTarget(reg, sub) # 0
       THEN /\ mux' = [mux EXCEPT ![SetMuxTarget(reg, sub)] = s]
            /\ sess' = [sess EXCEPT ![s] = "open"]
            /\ api' = "ok"
       ELSE /\ api' = "notfound"
            /\ UNCHANGED <<mux, sess>>
    /\ UNCHANGED <<reg, info, rows, nextId>>
    /\ ApiUnchanged

\* the Registry alone
RegistryNext ==
    \/ \E cl \in Clients, sub \in Subs, port \in 0..ApiPorts :
          ApiNewTunnel(cl, sub, port)
    \/ \E t \in Ids : ApiRegister(t)
    \/ \E sub \in Subs : ApiUnregister(sub)
    \/ \E sub \in Subs, s \in Ids : ApiSetMuxSession(sub, s)

RegistrySpec == InitApi /\ [][RegistryNext]_vars

\* the HTTP proxy while the control plane registers and unregisters tunnels
\* of one client under HttpSubs subdomains, attaches mux sessions, and
\* sessions close
HttpNext ==
    \/ \E sub \in 1..HttpSubs : ApiNewTunnel(1, sub, 0)
    \/ \E t \in Ids : ApiRegister(t)
    \/ \E sub \in 1..HttpSubs : ApiUnregister(sub)
    \/ \E sub \in 1..HttpSubs, s \in Ids : ApiSetMuxSession(sub, s)
    \/ \E s \in Ids : SessionClose(s)
    \/ \E host \in Hosts : HttpAccept(host)
    \/ HttpOpen
    \/ \E ok \in BOOLEAN : HttpForward(ok)
    \/ \E ok \in BOOLEAN, raw \in SUBSET StreamHeaders : HttpResponse(ok, raw)
    \/ \E more \in BOOLEAN : CopyRead(more)
    \/ \E ok \in BOOLEAN : CopyWrite(ok)
    \/ CopyFlush
    \/ BufferFull
    \/ HttpDone

HttpSpec == InitApi /\ [][HttpNext]_vars

\* the goroutines of handleConnection
TcpTask == TcpOpen \/ UpEnd \/ DownEnd \/ TcpReturn

\* the TCP proxy while the control plane registers and unregisters tunnels
\* with and without a port; the goroutines of handleConnection are
\* scheduled fairly
FwdNext ==
    \/ \E sub \in 1..ProxySubs, port \in 0..1 : ApiNewTunnel(1, sub, port)
    \/ \E t \in Ids : ApiRegister(t)
    \/ \E sub \in 1..ProxySubs : ApiUnregister(sub)
    \/ \E sub \in 1..ProxySubs, s \in Ids : ApiSetMuxSession(sub, s)
    \/ \E s \in Ids : SessionClose(s)
    \/ \E p \in 1..2 : TcpAccept(p)
    \/ TcpOpen
    \/ ConnEnd
    \/ StreamEnd
    \/ UpEnd
    \/ DownEnd
    \/ TcpReturn
    \/ TcpDone

FwdSpec == InitApi /\ [][FwdNext]_vars /\ WF_vars(TcpTask)

\* the Registry and the Repository, as the control sessions use them
ApiNext ==
    \/ \E cl \in Clients, sub \in Subs, port \in 0..ApiPorts :
          ApiNewTunnel(cl, sub, port)
    \/ \E t \in Ids : ApiCreateTunnel(t)
    \/ \E t \in Ids : ApiCloseTunnel(t)
    \/ \E t \in Ids : ApiRegister(t)
    \/ \E sub \in Subs : ApiUnregister(sub)

ApiSpec == InitApi /\ [][ApiNext]_vars

\* ================================================================ claims
\* the tunnels some Registry index refers to
InClientList(t, c) == \E j \in 1..reg.clients[c].len : reg.clients[c].arr[j] = t

Indexed(t) ==
    \/ \E s \in Subs : reg.tunnels[s] = t
    \/ \E p \in Ports : reg.ports[p] = t
    \/ \E c \in Clients : InClientList(t, c)

Minted(t) == t < nextId

\* C1: at most one tunnel is active per subdomain: no two tunnels that any
\* Registry index refers to share a subdomain, no two active Repository rows
\* share a subdomain, and a Register call for a subdomain that already has a
\* binding fails and leaves the Registry as it was.
C1_OnePerSubdomain ==
    /\ \A t1, t2 \in Ids :
          (Indexed(t1) /\ Indexed(t2) /\ info[t1].sub = info[t2].sub) => t1 = t2
    /\ \A s \in Subs : Cardinality(ActiveRows(s)) <= 1

C1_DuplicateRegisterFails ==
    \A t \in Ids :
        (ApiRegister(t) /\ GetBySubdomain(reg, info[t].sub) # 0)
            => (api' = "subdomain" /\ reg' = reg /\ mux' = mux /\ sess' = sess)

C1_OneActiveTunnelPerSubdomain ==
    [](C1_OnePerSubdomain) /\ [][C1_DuplicateRegisterFails]_vars

\* a Register call was refused for a subdomain whose binding has an active
\* row, the refused tunnel's row closed
C1_Witness ==
    /\ api = "subdomain"
    /\ \E t1, t2 \in Ids :
          /\ t1 # t2 /\ info[t1].sub = info[t2].sub
          /\ Bound(t1) /\ rows[t1] = "active"
          /\ ~Indexed(t2) /\ rows[t2] = "closed"

\* C2: at most one binding holds a public port > 0, and a Register call for
\* a binding whose port is already bound fails and leaves the three indices
\* as they were.
C2_OnePerPort ==
    \A t1, t2 \in Ids :
        (Indexed(t1) /\ Indexed(t2) /\ info[t1].port > 0
            /\ info[t1].port = info[t2].port) => t1 = t2

C2_DuplicatePortFails ==
    \A t \in Ids :
        (ApiRegister(t) /\ info[t].port > 0 /\ GetByPort(reg, info[t].port) # 0)
            => (api' \in {"port", "subdomain"} /\ reg' = reg)

C2_OneBindingPerPort ==
    [](C2_OnePerPort) /\ [][C2_DuplicatePortFails]_vars

\* a Register call was refused because of the port alone
C2_Witness ==
    /\ api = "port"
    /\ \E t1, t2 \in Ids :
          /\ t1 # t2 /\ info[t1].port = info[t2].port /\ info[t1].port > 0
          /\ info[t1].sub # info[t2].sub
          /\ Bound(t1) /\ ~Indexed(t2)

\* C3: the three indices describe the same set of bindings, GetByPort finds
\* a binding exactly while a registered binding has that port, and Count is
\* the number of bindings.
Occurrences(t, c) ==
    Cardinality({j \in 1..reg.clients[c].len : reg.clients[c].arr[j] = t})

TotalListed == Cardinality({<<c, j>> \in Clients \X (1..MaxTunnels) :
                              j <= reg.clients[c].len})

C3_IndicesConsistent ==
    /\ \A t \in Ids : \A c \in Clients :
          Occurrences(t, c) = IF Bound(t) /\ c = info[t].client THEN 1 ELSE 0
    /\ \A t \in Ids :
          info[t].port > 0 => (Bound(t) <=> GetByPort(reg, info[t].port) = t)
    /\ \A p \in Ports :
          GetByPort(reg, p) # 0 <=> \E t \in Ids : Bound(t) /\ info[t].port = p
    /\ Count(reg) = TotalListed
    /\ Count(reg) = Cardinality({t \in Ids : Bound(t)})

\* one client has two bindings left after one was removed from the middle of
\* its list, one of them with a port and a mux session
C3_Witness ==
    \E c \in Clients :
        /\ reg.clients[c].len = 2
        /\ Len(reg.clients[c].arr) = 4
        /\ \E t \in Ids : ~Bound(t) /\ Minted(t) /\ info[t].client = c
                            /\ reg.clients[c].arr[1] < t /\ t < reg.clients[c].arr[2]
        /\ \E t \in Ids : Bound(t) /\ info[t].port > 0 /\ mux[t] # 0

\* C4: every tunnel a Registry index refers to has a Repository row with
\* its id whose status is active (the row is written before Register, and
\* closed only after Unregister).
C4_BindingHasActiveRow ==
    \A t \in Ids : Indexed(t) => rows[t] = "active"

\* one tunnel is bound with its row active while another, bound before, has
\* been unregistered and its row closed
C4_Witness ==
    \E t1, t2 \in Ids :
        /\ Bound(t1) /\ rows[t1] = "active"
        /\ mpc[t2] # "none" /\ ~Indexed(t2) /\ rows[t2] = "closed"

\* C5: when cleanupClient ends, every binding its GetByClient call returned
\* is out of the Registry, its row is closed and its mux session, if it had
\* one, is closed.
C5_CleanupEnds(c) == pc[c] = "cl_read" /\ pc'[c] = "closed"

C5_CleanupRemovesAll ==
    [][\A c \in Conns : C5_CleanupEnds(c) =>
          \A t \in snap[c].own :
              /\ ~Indexed(t)'
              /\ rows'[t] = "closed"
              /\ (mux[t] # 0 => sess'[mux[t]] = "closed")]_vars

\* C6: once the cleanup of the only client's closed control connection has
\* ended, every subdomain a tunnel was created for over that connection is
\* free again: no binding and no active row holds it, and an HTTP request
\* for it gets 404.
C6_AfterDisconnect ==
    \A c \in Conns : pc[c] = "closed" =>
        \A t \in Ids : info[t].conn = c =>
            /\ GetBySubdomain(reg, info[t].sub) = 0
            /\ ~GetTunnelBySubdomain(info[t].sub)
            /\ ServeHTTP(reg, info[t].sub) = 404

\* C7: a tunnel whose mux establishment has failed or timed out is not
\* left bound in the Registry with an active row.
C7_MuxFailureCleansUp ==
    \A t \in Ids : mpc[t] = "failed" => (~Bound(t) /\ rows[t] # "active")

\* C8: no server task has a step left to take
Quiescent ==
    /\ \A c \in Conns : pc[c] \in {"new", "ready", "closed"}
    /\ \A t \in Ids : mpc[t] # "wait"

\* C8: when the mux session of a tunnel has closed while its control
\* connection stays open, the server unregisters the tunnel: once every
\* server task has run to its end, no binding is left whose session is closed.
C8_ClosedSessionUnregistered ==
    Quiescent =>
        \A t \in Ids :
            (Bound(t) /\ mux[t] # 0 /\ pc[info[t].conn] = "ready")
                => sess[mux[t]] = "open"

\* C9: a tunnel request that ends in an error reply leaves no binding and
\* no active row of its own behind: the step that decides on the error and
\* the step that sends it change no binding and no row of another tunnel,
\* and when the reply is sent the request's own tunnel, if one was created,
\* is in no Registry index and its row is closed.
C9_ErrorDecided(c) ==
    pc[c] # pc'[c] /\ pc'[c] \in {"send_error", "rollback"}

C9_ErrorSent(c) ==
    pc[c] = "send_error" /\ pc'[c] = "ready"

C10_RequestRead(c) == pc[c] = "ready" /\ pc'[c] \notin {"ready", "cl_read"}

C11_UnregisterStep(c) == pc[c] = "undo_unreg" /\ pc'[c] = "undo_close"

C11_CloseStep(c) == pc[c] = "undo_close" /\ pc'[c] = "ready"

InRange(p) == PortStart <= p /\ p <= PortEnd

FreePorts == {p \in PortStart..PortEnd : reg.ports[p] = 0}

\* assignPublicPort calls allocate: the request names no port
AllocateCall(c) ==
    pc[c] = "port" /\ pc'[c] # "port" /\ req[c].port = 0 /\ allocOn

\* C12: a port returned by allocate lies in [start, end] and has no binding
\* when it is returned, and allocate reports exhaustion only when no port of
\* the range is free (so, when every returned port is registered before the
\* next call, each free port is returned once before exhaustion).
C12_AllocateReturnsFreePort ==
    [][\A c \in Conns : AllocateCall(c) =>
          IF pc'[c] = "create"
          THEN /\ InRange(req'[c].port)
               /\ req'[c].port \in FreePorts
          ELSE FreePorts = {}]_vars

\* allocate has just returned the last free port of the range, below the
\* cursor
C12_Witness ==
    \E c \in Conns :
        /\ pc[c] = "create" /\ req[c].tid = 0
        /\ FreePorts = {req[c].port}
        /\ req[c].port = PortStart
        /\ allocNext = PortStart + 1
        /\ \E t \in Ids : Bound(t) /\ info[t].port = PortEnd /\ info[t].conn = c

\* C13: when every port of the range has a binding, a tcp request without
\* an explicit port is answered PORT_ALLOCATION_FAILED and creates no row
\* and no binding.
C13_ExhaustedRangeRefused ==
    [][\A c \in Conns : (AllocateCall(c) /\ FreePorts = {}) =>
          /\ pc'[c] = "send_error"
          /\ req'[c].code = "PORT_ALLOCATION_FAILED"
          /\ req'[c].tid = 0
          /\ reg' = reg /\ rows' = rows /\ info' = info /\ nextId' = nextId]_vars

\* a request is about to be answered PORT_ALLOCATION_FAILED with the whole
\* range bound and its subdomain unused
C13_Witness ==
    \E c \in Conns :
        /\ pc[c] = "send_error" /\ req[c].code = "PORT_ALLOCATION_FAILED"
        /\ FreePorts = {}
        /\ req[c].sub # 0 /\ reg.tunnels[req[c].sub] = 0
        /\ ActiveRows(req[c].sub) = {}

\* C14: allocate returns the first free port at or after the cursor, going
\* upward and wrapping once from end to start, and leaves the cursor on the
\* port after the returned one (start after end).
LeastOf(S) == CHOOSE p \in S : \A q \in S : p <= q

FirstFreeFromCursor ==
    IF \E p \in FreePorts : p >= allocNext
    THEN LeastOf({p \in FreePorts : p >= allocNext})
    ELSE LeastOf(FreePorts)

C14_AllocateFromCursor ==
    [][\A c \in Conns : (AllocateCall(c) /\ pc'[c] = "create") =>
          /\ InRange(allocNext)
          /\ req'[c].port = FirstFreeFromCursor
          /\ allocNext' = IF FirstFreeFromCursor = PortEnd THEN PortStart
                          ELSE FirstFreeFromCursor + 1]_vars

\* three tunnels opened in sequence hold start, start + 1 and start + 2, the
\* second was closed, and the fourth tunnel got start + 1
C14_Witness ==
    /\ info[1].port = PortStart /\ Bound(1)
    /\ info[2].port = PortStart + 1 /\ rows[2] = "closed"
    /\ info[3].port = PortStart + 2 /\ Bound(3)
    /\ info[4].port = PortStart + 1 /\ Bound(4)
    /\ allocNext = PortStart + 2

\* C15: a tcp request that names a port of the configured range without a
\* binding is given exactly that port and leaves the allocator cursor where
\* it was; the binding it registers holds that port.
C15_ExplicitPortHonoured ==
    [][\A c \in Conns :
          /\ (/\ pc[c] = "port" /\ pc'[c] # "port"
              /\ allocOn /\ InRange(req[c].port)
              /\ req[c].port \in FreePorts)
             => /\ pc'[c] = "create"
                /\ req'[c].port = req[c].port
                /\ allocNext' = allocNext
          /\ (pc[c] = "register" /\ pc'[c] = "respond")
             => /\ info[req[c].tid].port = req[c].port
                /\ req[c].port > 0 => reg'.ports[req[c].port] = req[c].tid]_vars

\* the only tunnel made so far is bound on the port its request named, the
\* cursor still at the start of the range
C15_Witness ==
    /\ nextId = 2
    /\ Bound(1) /\ info[1].port = PortStart + 1
    /\ reg.ports[PortStart + 1] = 1
    /\ allocNext = PortStart
    /\ \A c \in Conns : pc[c] \in {"new", "ready"}

\* C16: a connection that has not authenticated (no client id yet) changes
\* neither the Registry, the Repository nor the allocator: its only steps
\* lead to Ready with the client id of a valid token, to an error reply or to
\* Closed; a tunnel request sent before authentication is refused; every
\* session that handles a request and every tunnel belongs to an
\* authenticated client, and a connection closed without authentication has
\* created no tunnel.
C16_StepBeforeAuth ==
    \A c \in Conns :
        /\ (cid[c] = 0 /\ pc'[c] # pc[c]) =>
              /\ reg' = reg /\ rows' = rows /\ info' = info
              /\ nextId' = nextId /\ allocNext' = allocNext
              /\ pc'[c] \in {"ready", "auth_error", "closed"}
              /\ pc'[c] = "ready" => cid'[c] \in Clients
        /\ \A tok \in Tokens, wok \in BOOLEAN :
              Authenticate(c, "tunnel_request", tok, wok) =>
                  (pc'[c] = "auth_error" /\ cid'[c] = 0)

C16_OnlyAuthenticatedSessions ==
    /\ \A c \in Conns :
          pc[c] \notin {"new", "auth_error", "closed"} => cid[c] \in Clients
    /\ \A t \in Ids : Minted(t) =>
          (info[t].conn \in Conns /\ info[t].client = cid[info[t].conn]
             /\ info[t].client \in Clients)

C16_NoTunnelWithoutAuth ==
    [](C16_OnlyAuthenticatedSessions) /\ [][C16_StepBeforeAuth]_vars

\* a tunnel request sent as the first message of a connection is being
\* refused while an authenticated connection has a tunnel bound
C16_Witness ==
    \E c \in Conns :
        /\ pc[c] = "auth_error" /\ req[c].code = "INVALID_MESSAGE"
        /\ cid[c] = 0
        /\ \E t \in Ids : Bound(t) /\ info[t].conn # c

\* C17: an auth message without a token is answered INVALID_TOKEN, one with
\* a token of no active client AUTH_FAILED; after the reply the session is
\* Closed, and a closed session never becomes Ready.
C17_AuthErrors ==
    [][\A c \in Conns :
          /\ \A wok \in BOOLEAN :
                /\ Authenticate(c, "auth", 0, wok) =>
                      (pc'[c] = "auth_error" /\ req'[c].code = "INVALID_TOKEN")
                /\ Authenticate(c, "auth", NumClients + 1, wok) =>
                      (pc'[c] = "auth_error" /\ req'[c].code = "AUTH_FAILED")
          /\ (pc[c] = "auth_error" /\ pc'[c] # "auth_error") => pc'[c] = "closed"
          /\ (pc[c] = "closed" /\ cid[c] = 0) => (pc'[c] = "closed" /\ cid'[c] = 0)]_vars

\* one connection is being answered INVALID_TOKEN, another AUTH_FAILED
C17_Witness ==
    \E c, d \in Conns :
        /\ pc[c] = "auth_error" /\ req[c].code = "INVALID_TOKEN"
        /\ pc[d] = "auth_error" /\ req[d].code = "AUTH_FAILED"

\* C18: after an error reply to a tunnel request the session is Ready
\* again, the bindings and rows are as they were (the session's earlier
\* tunnels stay bound and active), and a Ready session accepts every
\* well-formed request for a subdomain without an active row, whatever was
\* answered before.
C18_SessionSurvivesError ==
    [][\A c \in Conns :
          /\ (pc[c] = "send_error" /\ pc'[c] # "send_error") =>
                /\ req[c].code \in ErrorCodes
                /\ pc'[c] = "ready"
                /\ \A t \in Ids : (info[t].conn = c /\ Bound(t)) =>
                      (Bound(t)' /\ rows'[t] = "active")
          /\ \A sub \in Subs :
                (/\ C10_RequestRead(c) /\ req'[c].sub = sub
                 /\ ActiveRows(sub) = {})
                => pc'[c] \in {"create", "port"}]_vars

\* the first connection, alone, had its first two requests refused and its
\* third provisioned
C18_Witness ==
    /\ pc[1] = "ready" /\ todo[1] = 0
    /\ \A c \in Conns \ {1} : pc[c] = "new"
    /\ nextId = 2
    /\ Bound(1) /\ rows[1] = "active" /\ info[1].conn = 1

\* C19: a message of an unknown type, and a tunnel request whose subdomain,
\* protocol or local_port is missing or not of the required kind, is
\* answered with an error of code INVALID_MESSAGE and changes neither the
\* Registry nor the Repository.
C19_InvalidMessageCode ==
    [][\A c \in Conns :
          /\ ReadOther(c, "unknown") =>
                (pc'[c] = "send_error" /\ req'[c].code = "INVALID_MESSAGE")
          /\ \A sub \in 0..NumSubs, proto \in Protos, lport \in 0..1,
                xport \in 0..PortEnd :
                (/\ ReadRequest(c, sub, proto, lport, xport)
                 /\ (sub = 0 \/ proto = "" \/ lport = 0))
                => /\ pc'[c] = "send_error"
                   /\ req'[c].code = "INVALID_MESSAGE"
                   /\ reg' = reg /\ rows' = rows]_vars

\* C20: every tunnel with an active row or a binding has a non-empty
\* subdomain, a positive local_port and a protocol among http, https, tcp
\* and grpc.
C20_ActiveTunnelWellFormed ==
    \A t \in Ids : (rows[t] = "active" \/ Indexed(t)) =>
        /\ info[t].sub # 0
        /\ info[t].lport > 0
        /\ info[t].proto \in {"http", "https", "tcp", "grpc"}

\* ------------------------------------------------------------------ C21
ResponseTypes == {"tunnel_response", "tcp_response", "grpc_response"}

ResponseTypeOfRequest(mtype, proto) ==
    IF mtype = "tcp_request" THEN "tcp_response"
    ELSE IF mtype = "grpc_request" THEN "grpc_response"
    ELSE "tunnel_response"

\* C22: the success response to a provisioning request has the type that
\* matches the type of the request (tunnel_request -> tunnel_response,
\* tcp_request -> tcp_response, grpc_request -> grpc_response), whatever
\* protocol the payload names
C22_ResponseTypeMatchesRequest ==
    [][\A c \in Conns :
          Respond(c, TRUE) =>
             out'[c].type = ResponseTypeOfRequest(req[c].mtype, req[c].proto)]_vars

\* ------------------------------------------------------------------ C23
\* the session holds a message it has read and not yet answered
C23_Pending(c) == pc[c] \in {"auth_error", "send_error", "respond"}

\* C23: every reply the server writes (auth_response, tunnel / tcp / grpc
\* response, heartbeat reply, error) carries the request_id of the message
\* it answers: a provisioning message is kept with its request id, and the
\* frame written for a message, at once or later, has that request id
C23_RepliesEchoRequestId ==
    [][\A c \in Conns :
          /\ (pc[c] = "ready" /\ pc'[c] \in {"send_error", "port", "create"}) =>
                \E m \in ProvisionTypes, rid \in Rids :
                   /\ req'[c].rid = rid
                   /\ req'[c].mtype = m
                   /\ \E sub \in 0..NumSubs, proto \in AllProtos,
                         lport \in 0..1, xport \in {0, PortStart + 1} :
                            ReadProvision(c, m, rid, sub, proto, lport, xport)
          /\ (C23_Pending(c) /\ out'[c] # out[c]) =>
                out'[c].rid = req[c].rid
          /\ (~C23_Pending(c) /\ out'[c] # out[c] /\ out'[c] # NoFrame) =>
                \E rid \in Rids :
                   /\ out'[c].rid = rid
                   /\ \/ \E tok \in Tokens :
                            AuthenticateMsg(c, "auth", rid, tok, TRUE)
                      \/ ReadOtherMsg(c, "heartbeat", rid)]_vars

\* an error and a success response have been written with the non-empty
\* request id of their request
C23_Witness ==
    \E c \in Conns :
        /\ out[c].type \in ResponseTypes \cup {"error"}
        /\ out[c].rid = MaxRid
        /\ \E t \in Ids : Bound(t)

\* ------------------------------------------------------------------ C27
\* C27: a heartbeat read in Ready state is answered with one heartbeat
\* frame that carries the request id and the server's current time, the
\* session stays Ready, and the Registry, the Repository and the allocator
\* cursor are left as they were
C27_HeartbeatAnswered ==
    [][\A c \in Conns, rid \in Rids :
          ReadOtherMsg(c, "heartbeat", rid) =>
             /\ out'[c] = [NoFrame EXCEPT !.type = "heartbeat", !.rid = rid,
                                          !.ts = now]
             /\ pc'[c] = "ready"
             /\ UNCHANGED <<reg, rows, allocNext>>]_vars

\* a heartbeat has been answered, after the clock has run, on a session
\* that holds a binding
C27_Witness ==
    \E c \in Conns :
        /\ out[c].type = "heartbeat"
        /\ out[c].ts = MaxClock
        /\ pc[c] = "ready"
        /\ \E t \in Ids : Bound(t) /\ info[t].conn = c

\* ------------------------------------------------------------------ C28
\* C28: a Ready session whose client has gone silent (no heartbeat and no
\* other message will arrive) is closed after the idle window, whether or
\* not the connection reports a read error
C28_IdleSessionCloses ==
    \A c \in Conns :
        (pc[c] = "ready" /\ todo[c] = 0 /\ now = MaxClock) ~> (pc[c] = "closed")

\* ------------------------------------------------------------------ C29
\* C29: while cleanupClient runs a second time for the same client, no step
\* changes the Registry or the Repository
C29_SecondCleanupChangesNothing ==
    [][api = "again" => UNCHANGED <<reg, rows>>]_vars

\* ------------------------------------------------------------------ C24
\* the host, without its port, is the server domain, does not end with
\* "." + server domain, or has nothing before that suffix
C24_BadHost(host) ==
    \/ StripPort(host) = Domain
    \/ ~HasSuffix(StripPort(host), <<".">> \o Domain)
    \/ Len(StripPort(host)) = Len(Domain) + 1

C24_Prefix(host) ==
    SubSeq(StripPort(host), 1, Len(StripPort(host)) - Len(Domain) - 1)

\* no stream can be opened for the subdomain: no binding, no session
\* attached, or the session closed
C24_OpenFails(name) ==
    \/ LookupName(reg, name) = 0
    \/ mux[LookupName(reg, name)] = 0
    \/ sess[mux[LookupName(reg, name)]] # "open"

\* C24: the HTTP dispatcher answers 400 for a bad host, otherwise 404 when
\* the Registry has no binding for the prefix, otherwise 502 when no mux
\* stream can be opened; only otherwise is the request written, to a stream
\* on the session of the binding registered under the prefix
C24_HttpDispatch ==
    [][/\ (hp.pc = "idle" /\ hp'.pc # "idle") =>
             IF C24_BadHost(hp'.host)
             THEN hp'.pc = "done" /\ hp'.status = 400
             ELSE IF LookupName(reg, C24_Prefix(hp'.host)) = 0
             THEN hp'.pc = "done" /\ hp'.status = 404
             ELSE hp'.pc = "open" /\ hp'.name = C24_Prefix(hp'.host)
       /\ (hp.pc = "open" /\ hp'.pc # "open") =>
             IF C24_OpenFails(hp.name)
             THEN hp'.pc = "done" /\ hp'.status = 502
             ELSE /\ hp'.pc = "forward"
                  /\ hp'.via = LookupName(reg, hp.name)
                  /\ hp'.on = mux[LookupName(reg, hp.name)]
       /\ (hp'.pc = "response" /\ hp.pc # "response") =>
             /\ hp.pc = "forward"
             /\ hp.via # 0
             /\ info[hp.via].sub = SubKey(C24_Prefix(hp.host))]_vars

\* the request of a host with a port has been written to a stream of the
\* binding of its prefix
C24_Witness ==
    /\ hp.pc = "response"
    /\ Len(StripPort(hp.host)) < Len(hp.host)
    /\ hp.via # 0
    /\ info[hp.via].sub = SubKey(hp.name)

\* ------------------------------------------------------------------ C25
\* C25: a connection accepted on a port without a binding is closed and no
\* stream is opened; otherwise the stream is opened on the mux session of
\* the binding registered on that port, whatever is unregistered and
\* registered in the meantime
C25_StreamOnPortBinding ==
    [][/\ (tp.pc = "idle" /\ tp'.pc # "idle"
             /\ GetByPort(reg, tp'.port) = 0) =>
             tp'.pc = "done" /\ tp'.conn = "closed" /\ tp'.stream = ""
       /\ (tp.pc = "open" /\ tp'.pc = "forward") =>
             /\ GetByPort(reg, tp.port) # 0
             /\ tp'.via = GetByPort(reg, tp.port)
             /\ tp'.on = mux[GetByPort(reg, tp.port)]]_vars

\* ------------------------------------------------------------------ C26
\* C26: once the public connection or the mux stream of a forwarded
\* connection has reached EOF or failed, both copy goroutines end and
\* handleConnection returns with both ends closed; no step of the
\* forwarding writes to a control connection
C26_ForwardingEnds ==
    /\ (tp.pc = "forward" /\ (tp.conn # "open" \/ tp.stream # "open"))
          ~> (/\ tp.pc = "done"
              /\ tp.conn = "closed"
              /\ tp.stream = "closed"
              /\ tp.up = "done"
              /\ tp.down = "done")
    /\ [][tp' # tp => UNCHANGED <<out, pc>>]_vars

\* a forwarded connection has ended with both goroutines done and both ends
\* closed
C26_Witness ==
    /\ tp.pc = "done"
    /\ tp.via # 0
    /\ tp.up = "done"
    /\ tp.down = "done"
    /\ tp.conn = "closed"
    /\ tp.stream = "closed"

\* ------------------------------------------------------------------ C30
\* C30: when the tunneled response was sent with Content-Type
\* text/event-stream, Transfer-Encoding chunked or X-Accel-Buffering no, a
\* chunk is read from the stream only after every chunk read before has been
\* written and flushed; every other response is copied without flushes
C30_StreamingFlushPerChunk ==
    [][(hp.pc = "copy" /\ hp'.rd = hp.rd + 1) =>
          IF hp.raw \cap StreamHeaders # {}
          THEN hp.wr = hp.rd /\ hp.fl = hp.rd
          ELSE hp.mode = "buffered"]_vars

\* ------------------------------------------------------------------ C31
\* the request that made tunnel t is still being handled: its response has
\* not been written, or the rollback after a failed write is under way
C31_Handling(t) == \E c \in Conns : req[c].tid = t

\* C31: mux establishment for a tunnel starts only after the tunnel's
\* response has been sent successfully: when the new_connection frame of a
\* tunnel is written to the control channel, the handler of the tunnel's
\* request has written the response and has returned.
C31_ResponseBeforeNewConnection ==
    [][\A t \in Ids :
          (mpc[t] = "notify" /\ mpc'[t] = "listen") => ~C31_Handling(t)]_vars

\* ------------------------------------------------------------------ C32
\* C32: no two tasks write a frame to the same control connection at the
\* same time: at most one task is inside WriteJSON on a connection.
C32_OneWriterPerConnection ==
    \A c \in Conns : Cardinality(Writers(c)) <= 1

\* ------------------------------------------------------------------ C33
\* C33: the mux session of a binding is written at most once: once a
\* session has been attached to a binding it is never replaced.
C33_SessionAttachedOnce ==
    [][\A t \in Ids : mux[t] # 0 => mux'[t] = mux[t]]_vars

\* ------------------------------------------------------------------ C34
\* C34: the session accepted by the task spawned for tunnel t is attached
\* only to the binding of t: when the task calls SetMuxSession, the session
\* becomes the session of t if t is still bound, and otherwise it is closed
\* and no binding changes.
C34_SessionAttachedToOwnBinding ==
    [][\A t \in Ids :
          (mpc[t] = "accepted" /\ mpc'[t] # "accepted") =>
              IF Bound(t)
              THEN mpc'[t] = "done" /\ mux'[t] = t
              ELSE mux' = mux /\ sess'[t] = "closed"]_vars

\* ------------------------------------------------------------------ C35
\* C35: the mux session attached to a binding runs over a connection that
\* the client owning the tunnel has dialed.
C35_SessionDialedByOwner ==
    \A t \in Ids : mux[t] # 0 => peer[mux[t]] = info[t].client

\* ------------------------------------------------------------------ C36
\* tunnel t was made over a control connection other than c that is still
\* open
C36_Foreign(c, t) ==
    /\ info[t].conn # 0
    /\ info[t].conn # c
    /\ pc[info[t].conn] \notin {"closed", "cl_read", "cl_unreg", "cl_close"}

\* C36: the cleanup of a disconnected control connection removes only the
\* tunnels made over that connection: no step of the cleanup of c removes
\* the binding, closes the row or closes the mux session of a tunnel made
\* over another connection that is still open.
C36_CleanupSparesOtherConnections ==
    [][\A c \in Conns :
          (pc[c] \in {"cl_unreg", "cl_close"} /\ pc'[c] # pc[c]) =>
              \A t \in Ids : C36_Foreign(c, t) =>
                  /\ Bound(t) => Bound(t)'
                  /\ rows[t] = "active" => rows'[t] = "active"
                  /\ (mux[t] # 0 /\ sess[mux[t]] = "open")
                        => sess'[mux[t]] = "open"]_vars

\* ------------------------------------------------------------------ C37
\* C37: every active tcp or grpc tunnel has a public port inside the
\* configured range, and a request for a port outside the range, or made
\* while no range is configured, is answered with PORT_ALLOCATION_FAILED.
C37_PortInConfiguredRange ==
    /\ [](\A t \in Ids :
            (rows[t] = "active" /\ info[t].proto \in {"tcp", "grpc"})
                => (allocOn /\ InRange(info[t].port)))
    /\ [][\A c \in Conns :
            (/\ pc[c] = "port"
             /\ pc'[c] # "port"
             /\ (~allocOn \/ (req[c].port > 0 /\ ~InRange(req[c].port))))
                => (/\ pc'[c] = "send_error"
                    /\ req'[c].code = "PORT_ALLOCATION_FAILED")]_vars

C40_ActiveOf(cl) == {t \in Ids : rows[t] = "active" /\ info[t].client = cl}

\* C40: the number of active tunnels of a client never exceeds the
\* max_tunnels of the client's row.
C40_TunnelsWithinLimit ==
    \A cl \in Clients :
        Cardinality(C40_ActiveOf(cl)) <= clientTab[cl].max_tunnels

====
